---- MODULE Spec2Model ----
(***************************************************************************)
(* Model of main.py of eligro/erp_integrations: the Priority -> Atera      *)
(* reconcilers (sync_customers, sync_contacts) and the duplicate-email     *)
(* side log.  Strings whose characters the code inspects (strip, lower)    *)
(* are sequences of one-character strings; identifiers the code only       *)
(* compares (CUSTNAME, the cross-reference value) are atomic strings.      *)
(***************************************************************************)
EXTENDS Integers, Sequences, FiniteSets, TLC

(* ------------------------------ bounds --------------------------------- *)

\* source customers returned by Priority in one behaviour
MaxSrc == 2
\* customers Atera holds before the first run
MaxTgt == 1
\* runs of one sync function in one behaviour
MaxRuns == 2
\* error statuses the remote systems answer with in one behaviour
MaxFaults == 1
\* source contacts returned by Priority in one behaviour
MaxContacts == 2
\* contacts Atera holds before the first run of sync_contacts
MaxTgtContacts == 1
\* runs of sync_contacts in one behaviour
MaxContactRuns == 2
\* calls of log_failed_duplicate_email in one behaviour of the side log alone
MaxLogCalls == 3
\* characters of a name field given to the name resolution on its own
MaxNameLen == 2
\* largest customer id given to the email resolution on its own
MaxCustomerId == 12
\* characters of a phone number given to sanitize_phone_number on its own
MaxPhoneLen == 3
\* source contracts returned by get_priority_contracts in one behaviour
MaxContracts == 2
\* contracts Atera holds before the first run of sync_contracts
MaxTgtContracts == 1
\* runs of sync_contracts in one behaviour
MaxContractRuns == 2
\* source contracts Priority answers get_priority_contracts with
MaxAllContracts == 2
\* tickets get_atera_tickets returns to a run of sync_tickets
MaxTickets == 2
\* pages a remote holds before the page it repeats for ever
MaxPages == 2
\* items on one page
MaxPageItems == 1
\* requests a pagination loop is followed for
MaxPageNumber == 4

(* --------------------------- Python values ----------------------------- *)

\* None where an identifier (CUSTNAME, cross-reference value) is expected
None == "<None>"
\* None where a customer id is expected; `if customer_id:` treats both alike
NoId == 0
\* truthiness of an identifier: None and '' are falsy
Truthy(v) == v \notin {None, ""}

\* HTTP statuses the remote systems answer with
OK == 200
NotFound == 404
Conflict == 409
ServerError == 500
Accepted(st) == st \in {200, 201}

\* str.lower() on the alphabet of the model
LowerChar(c) == CASE c = "A" -> "a" [] c = "B" -> "b" [] OTHER -> c
Lower(s) == [i \in 1..Len(s) |-> LowerChar(s[i])]

\* str.strip(): leading and trailing whitespace removed
RECURSIVE LStrip(_)
LStrip(s) == IF s # <<>> /\ Head(s) = " " THEN LStrip(Tail(s)) ELSE s
RECURSIVE RStrip(_)
RStrip(s) == IF s # <<>> /\ s[Len(s)] = " " THEN RStrip(SubSeq(s, 1, Len(s) - 1)) ELSE s
Strip(s) == RStrip(LStrip(s))

\* None where a string of characters is expected (a phone number)
NoneStr == <<"<None>">>
\* `a or b` on strings of characters
OrElse(a, b) == IF a # <<>> /\ a # NoneStr THEN a ELSE b
\* str.replace(' ', '')
RemoveSpaces(s) == SelectSeq(s, LAMBDA c : c # " ")
\* the characters of a string as one atomic string, as written to a file
RECURSIVE Text(_)
Text(s) == IF s = <<>> THEN "" ELSE Head(s) \o Text(Tail(s))

\* the number a string of decimal digits stands for
RECURSIVE NumberOf(_)
NumberOf(digits) ==
    IF digits = <<>> THEN 0
    ELSE 10 * NumberOf(SubSeq(digits, 1, Len(digits) - 1))
         + (CHOOSE d \in 0..9 : ToString(d) = digits[Len(digits)])

\* dict.get(key) with None (here NoId) for a missing key
Get(map, key) == IF key \in DOMAIN map THEN map[key] ELSE NoId
\* map[key] = value on a dict
Put(map, key, value) == [k \in DOMAIN map \cup {key} |-> IF k = key THEN value ELSE map[k]]
EmptyMap == [k \in {} |-> NoId]

(* ------------------------------ inputs --------------------------------- *)

\* CUSTNAME of the k-th source customer: unique within the source system
CustName(k) == CASE k = 1 -> "C1" [] k = 2 -> "C2" [] k = 3 -> "C3" [] OTHER -> "C4"
CustNames == {CustName(k) : k \in 1..MaxSrc}
\* display names: empty, one name spelled differently on the two sides (equal
\* once stripped and lower-cased), and another name
SourceNames == {<<>>, <<"A", " ">>, <<"b">>}
TargetNames == {<<>>, <<" ", "a">>, <<"b">>}
Phones == {<<"5">>}

\* PULL_PERIOD_DAYS, the default of line 65
PULL_PERIOD_DAYS == 2
\* MARH_UDATE as the number of days between the last modification and now()
ModifiedNow == 0
ModifiedLongAgo == 10

\* the source customers Priority holds, the k-th with CUSTNAME CustName(k)
SourceCustomers(n, ages) ==
    {s \in [1..n -> [CUSTNAME : CustNames, CUSTDES : SourceNames, PHONE : Phones,
                     MARH_UDATE : ages]] :
        \A k \in 1..n : s[k].CUSTNAME = CustName(k)}

\* Atera's customers before the first run: ids 1..n, any name, any cross-reference
TargetCustomers(n) ==
    {t \in [1..n -> [CustomerID : 1..n, CustomerName : TargetNames,
                     PriorityCustomerNumber : CustNames \cup {None}, Phone : Phones]] :
        \A k \in 1..n : t[k].CustomerID = k}

VARIABLES
    priority_customers,       \* what Priority answers to get_priority_customers
    atera,                    \* Atera's customers (remote state), with their custom field
    cust_pc,                  \* sync_customers: "idle", "loop", "done" or "raised"
    cust_run,                 \* number of the current run of sync_customers
    atera_customers,          \* the enriched list get_atera_customers returned
    atera_customer_id_map,    \* Priority Customer Number -> CustomerID
    atera_customer_name_map,  \* stripped lower-cased CustomerName -> CustomerID
    cust_i,                   \* index of the next source customer of the loop
    cust_calls,               \* mutation requests of this run, in order
    cust_log,                 \* decisions logged by this run (log_json, lines 266-279)
    cust_prev,                \* calls, log and outcome of the previous run
    faults,                   \* error statuses answered so far
    priority_contacts,        \* what Priority answers to get_priority_contacts
    atera_contact_list,       \* Atera's contacts (remote state)
    cont_pc,                  \* sync_contacts: "idle", "loop", "done" or "raised"
    cont_run,                 \* number of the current run of sync_contacts
    atera_contacts,           \* the list get_atera_contacts returned
    atera_customer_map,       \* Priority Customer Number -> CustomerID (line 321)
    atera_contact_map,        \* (CustomerID, lower-cased full name) -> contact
    cont_i,                   \* index of the next source contact of the loop
    cont_calls,               \* contact requests of this run, in order
    cont_log,                 \* outcome logged for each source contact of this run
    csvfile,                  \* failed_duplicated_emails.csv
    logged,                   \* arguments of the log_failed_duplicate_email calls so far
    fn_args,                  \* the arguments of a function called on its own
    fn_result,                \* what that call returned, Pending before it
    tickets,                  \* what get_atera_tickets returned
    tick_pc,                  \* sync_tickets: "idle", "loop", "done" or "raised"
    tick_i,                   \* index of the next ticket of the loop
    priority_customer_cache,  \* CustomerID -> Priority CUSTNAME or None (line 643)
    tick_calls,               \* requests of sync_tickets, in order
    priority_contracts,       \* what get_priority_contracts returned
    atera_contract_list,      \* Atera's contracts (remote state), with their custom field
    ctr_pc,                   \* sync_contracts: "idle", "loop", "done" or "raised"
    ctr_run,                  \* number of the current run of sync_contracts
    ctr_i,                    \* index of the next source contract of the loop
    priority_customers_map,   \* CUSTDES -> source customer (line 894)
    cust_map,                 \* Priority Customer Number -> CustomerID (lines 905-906)
    ctr_calls,                \* requests of sync_contracts, in order
    pg_fn,                    \* the function whose pagination loop runs
    pg_remote,                \* the pages the remote answers with, the last one for ever
    pg_page,                  \* page, the number of the page asked for next
    pg_pc,                    \* the loop: "idle", "loop", "returned", "HTTPError", "TypeError"
    pg_result,                \* the items collected so far
    main_pc,                  \* main: the sync it is at, "idle", "done" or "raised"
    enabled                   \* the syncs the configuration enables (lines 58-62)

\* the state of sync_customers alone
custVars == <<priority_customers, cust_pc, cust_run, atera_customers,
              atera_customer_id_map, atera_customer_name_map, cust_i, cust_calls,
              cust_log, cust_prev>>
\* the state of sync_contacts alone
contVars == <<priority_contacts, atera_contact_list, cont_pc, cont_run, atera_contacts,
              atera_customer_map, atera_contact_map, cont_i, cont_calls, cont_log>>
\* the side log
logVars == <<csvfile, logged>>

\* a function called on its own
fnVars == <<fn_args, fn_result>>
\* the state of sync_tickets alone
tickVars == <<tickets, tick_pc, tick_i, priority_customer_cache, tick_calls>>
\* the state of sync_contracts alone
ctrVars == <<priority_contracts, atera_contract_list, ctr_pc, ctr_run, ctr_i,
             priority_customers_map, cust_map, ctr_calls>>

\* a pagination loop
pageVars == <<pg_fn, pg_remote, pg_page, pg_pc, pg_result>>
\* main
mainVars == <<main_pc, enabled>>

vars == <<custVars, contVars, logVars, fnVars, tickVars, ctrVars, pageVars, mainVars,
          atera, faults>>

\* the statuses a request may be answered with while at most MaxFaults error
\* statuses are answered in one behaviour; n is what one handler may consume
Answers(n) == IF faults + n <= MaxFaults THEN {OK, ServerError} ELSE {OK}
\* the requests of a call list that were answered with an error status
Rejected(calls) == Cardinality({j \in 1..Len(calls) : ~Accepted(calls[j].status)})

(* --------------------------- sync_customers ---------------------------- *)

\* get_atera_custom_field: the value on 200, None on 404 and on any other status
get_atera_custom_field(value, st) == IF st = OK THEN value ELSE None

\* get_atera_customers: every customer with its 'Priority Customer Number';
\* readFailed are the customers whose custom-field read got an error status
get_atera_customers(remote, readFailed) ==
    [k \in 1..Len(remote) |->
        [remote[k] EXCEPT !.PriorityCustomerNumber =
            get_atera_custom_field(@, IF remote[k].CustomerID \in readFailed THEN ServerError
                                      ELSE IF @ = None THEN NotFound
                                      ELSE OK)]]

\* the customers whose custom field holds a value: an error status on the read
\* of any other customer's field gives the same None as its 404
HoldersOfValue(remote) ==
    {remote[k].CustomerID : k \in {j \in 1..Len(remote) : remote[j].PriorityCustomerNumber # None}}

\* lines 242-246 left out: no customer is found by its Priority Customer Number
BuildIdMapOfNothing(list, map) == map

\* lines 242-246: later customers overwrite earlier ones under the same key
RECURSIVE BuildIdMap(_, _)
BuildIdMap(list, map) ==
    IF list = <<>> THEN map
    ELSE LET customer == Head(list)
             priority_customer_number == customer.PriorityCustomerNumber
         IN BuildIdMap(Tail(list),
                       IF Truthy(priority_customer_number)
                       THEN Put(map, priority_customer_number, customer.CustomerID)
                       ELSE map)

\* the name map without the `if customer_name:` guard of line 250
RECURSIVE BuildNameMapNoGuard(_, _)
BuildNameMapNoGuard(list, map) ==
    IF list = <<>> THEN map
    ELSE LET customer == Head(list)
             customer_name == Lower(Strip(customer.CustomerName))
         IN BuildNameMapNoGuard(Tail(list), Put(map, customer_name, customer.CustomerID))

\* lines 248-251
RECURSIVE BuildNameMap(_, _)
BuildNameMap(list, map) ==
    IF list = <<>> THEN map
    ELSE LET customer == Head(list)
             customer_name == Lower(Strip(customer.CustomerName))
         IN BuildNameMap(Tail(list),
                         IF customer_name # <<>>
                         THEN Put(map, customer_name, customer.CustomerID)
                         ELSE map)

\* the JSON body of update_atera_customer (lines 190-205); the optional
\* attributes all follow the pattern of Phone
UpdatePayload(customer) ==
    [CustomerName |-> customer.CUSTDES, Phone |-> customer.PHONE]

\* Atera applying a customer PUT to the customer with that id
ApplyUpdate(remote, customer_id, data) ==
    [k \in 1..Len(remote) |->
        IF remote[k].CustomerID = customer_id
        THEN [remote[k] EXCEPT !.CustomerName = data.CustomerName, !.Phone = data.Phone]
        ELSE remote[k]]

\* Atera applying a custom-field PUT
ApplyField(remote, customer_id, value) ==
    [k \in 1..Len(remote) |->
        IF remote[k].CustomerID = customer_id
        THEN [remote[k] EXCEPT !.PriorityCustomerNumber = value]
        ELSE remote[k]]

\* Atera applying a customer POST: the new customer gets the next id (ActionID)
NewId(remote) == Len(remote) + 1
ApplyCreate(remote, data) ==
    Append(remote, [CustomerID |-> NewId(remote), CustomerName |-> data.CustomerName,
                    PriorityCustomerNumber |-> None, Phone |-> data.Phone])

Call(k, op, id, data, st) == [src |-> k, op |-> op, id |-> id, data |-> data, status |-> st]

\* update_atera_custom_field: PUT, raise_for_status on a status outside [200, 201]
update_atera_custom_field(remote, k, customer_id, value, st) ==
    [atera  |-> IF Accepted(st) THEN ApplyField(remote, customer_id, value) ELSE remote,
     calls  |-> <<Call(k, "set_field", customer_id, [Value |-> value], st)>>,
     raised |-> ~Accepted(st)]

\* update_atera_customer: PUT the fields, then write the custom field
update_atera_customer(remote, k, customer_id, customer, st1, st2) ==
    LET data == UpdatePayload(customer)
        put  == Call(k, "update", customer_id, data, st1)
    IN IF ~Accepted(st1)
       THEN [atera |-> remote, calls |-> <<put>>, raised |-> TRUE]
       ELSE LET f == update_atera_custom_field(ApplyUpdate(remote, customer_id, data), k,
                                               customer_id, customer.CUSTNAME, st2)
            IN [atera |-> f.atera, calls |-> <<put>> \o f.calls, raised |-> f.raised]

\* the JSON body of create_atera_customer (lines 152-168), without CreatedOn,
\* which is the clock's reading
CreatePayload(customer) ==
    [CustomerName |-> customer.CUSTDES, Phone |-> customer.PHONE]

\* create_atera_customer: POST the fields, then write the custom field of ActionID
create_atera_customer(remote, k, customer, st1, st2) ==
    LET data == CreatePayload(customer)
        post == Call(k, "create", NoId, data, st1)
    IN IF ~Accepted(st1)
       THEN [atera |-> remote, calls |-> <<post>>, raised |-> TRUE]
       ELSE LET f == update_atera_custom_field(ApplyCreate(remote, data), k,
                                               NewId(remote), customer.CUSTNAME, st2)
            IN [atera |-> f.atera, calls |-> <<post>> \o f.calls, raised |-> f.raised]

\* the body of the loop of sync_customers for one source customer (lines 256-279)
SyncOneCustomer(remote, k, customer, id_map, name_map, st1, st2) ==
    LET priority_customer_number == customer.CUSTNAME
        priority_customer_name == Lower(Strip(customer.CUSTDES))
        by_id == Get(id_map, priority_customer_number)
        by_name == Get(name_map, priority_customer_name)
    IN IF by_id # NoId
       THEN [r |-> update_atera_customer(remote, k, by_id, customer, st1, st2),
             log |-> [src |-> k, found |-> "by ID", id |-> by_id]]
       ELSE IF by_name # NoId
       THEN [r |-> update_atera_customer(remote, k, by_name, customer, st1, st2),
             log |-> [src |-> k, found |-> "by name", id |-> by_name]]
       ELSE [r |-> create_atera_customer(remote, k, customer, st1, st2),
             log |-> [src |-> k, found |-> "none", id |-> NoId]]

\* lines 233-253: both lists are fetched and the two maps built; a failing
\* fetch of the source customers raises out of sync_customers
sync_customers_fetch ==
    /\ cust_pc \in {"idle", "done", "raised"}
    /\ cust_run < MaxRuns
    /\ cust_run' = cust_run + 1
    /\ cust_prev' = [calls |-> cust_calls, log |-> cust_log, pc |-> cust_pc]
    /\ cust_calls' = <<>>
    /\ cust_log' = <<>>
    /\ cust_i' = 1
    /\ \E st \in Answers(1) :
         IF st # OK
         THEN /\ cust_pc' = "raised"
              /\ atera_customers' = <<>>
              /\ atera_customer_id_map' = EmptyMap
              /\ atera_customer_name_map' = EmptyMap
              /\ faults' = faults + 1
         ELSE \E readFailed \in SUBSET HoldersOfValue(atera) :
                /\ faults + Cardinality(readFailed) <= MaxFaults
                /\ faults' = faults + Cardinality(readFailed)
                /\ atera_customers' = get_atera_customers(atera, readFailed)
                /\ atera_customer_id_map' = BuildIdMap(atera_customers', EmptyMap)
                /\ atera_customer_name_map' = BuildNameMap(atera_customers', EmptyMap)
                /\ cust_pc' = IF priority_customers = <<>> THEN "done" ELSE "loop"
    /\ UNCHANGED <<priority_customers, atera, contVars, logVars, fnVars, tickVars, ctrVars,
                   pageVars, mainVars>>

\* one iteration of `for customer in priority_customers` (lines 255-279)
sync_customers_step ==
    /\ cust_pc = "loop"
    /\ \E st1 \in Answers(1), st2 \in Answers(1) :
         LET s == SyncOneCustomer(atera, cust_i, priority_customers[cust_i],
                                  atera_customer_id_map, atera_customer_name_map, st1, st2)
         IN /\ atera' = s.r.atera
            /\ cust_calls' = cust_calls \o s.r.calls
            /\ cust_log' = Append(cust_log, s.log)
            /\ cust_i' = cust_i + 1
            /\ faults' = faults + Rejected(s.r.calls)
            /\ cust_pc' = IF s.r.raised THEN "raised"
                          ELSE IF cust_i = Len(priority_customers) THEN "done"
                          ELSE "loop"
    /\ UNCHANGED <<priority_customers, cust_run, atera_customers,
                   atera_customer_id_map, atera_customer_name_map, cust_prev,
                   contVars, logVars, fnVars, tickVars, ctrVars, pageVars, mainVars>>

(* ---------------------------- side log --------------------------------- *)

\* the header row of failed_duplicated_emails.csv
Header == <<"CustomerID", "PriorityCustomerID", "EmailAddress">>
\* the row csv.writer writes for one conflict: every cell as text
Row(customer_id, priority_customer_id, email) ==
    <<ToString(customer_id), priority_customer_id, Text(email)>>
\* the file before anything created it
NoFile == [exists |-> FALSE, rows |-> <<>>]

\* log_failed_duplicate_email opening the file with mode 'w'
log_failed_duplicate_email_truncating(file, customer_id, priority_customer_id, email) ==
    [exists |-> TRUE,
     rows   |-> (IF ~file.exists THEN <<Header>> ELSE <<>>)
                \o <<Row(customer_id, priority_customer_id, email)>>]

\* log_failed_duplicate_email (lines 403-413): the file is opened for append,
\* which creates it; the header is written when it did not exist before
log_failed_duplicate_email(file, customer_id, priority_customer_id, email) ==
    LET file_exists == file.exists
    IN [exists |-> TRUE,
        rows   |-> file.rows \o (IF ~file_exists THEN <<Header>> ELSE <<>>)
                   \o <<Row(customer_id, priority_customer_id, email)>>]

(* --------------------------- sync_contacts ----------------------------- *)

\* a record of Priority without the key CUSTNAME: contact['CUSTNAME'] raises KeyError
Absent == "<absent>"
Digits == {"0", "1", "2", "3", "4", "5", "6", "7", "8", "9"}
ExampleDomain == <<"@", "e", "x", "a", "m", "p", "l", "e", ".", "c", "o", "m">>

\* sanitize_phone_number without the check for a digit of lines 74-78
sanitize_phone_number_unchecked(phone_number) ==
    IF phone_number = NoneStr \/ phone_number = <<>> THEN NoneStr
    ELSE SelectSeq(phone_number, LAMBDA c : c \in {"+", "-"} \cup Digits)

\* sanitize_phone_number (lines 68-78)
sanitize_phone_number(phone_number) ==
    IF phone_number = NoneStr \/ phone_number = <<>> THEN NoneStr
    ELSE LET sanitized == SelectSeq(phone_number, LAMBDA c : c \in {"+", "-"} \cup Digits)
         IN IF \E i \in 1..Len(sanitized) : sanitized[i] \in Digits
            THEN sanitized
            ELSE NoneStr

\* lines 345-353 with NAME put into both names when both are missing
ResolveNamesTwice(contact) ==
    LET first_name == Strip(OrElse(contact.FIRSTNAME, <<>>))
        last_name == Strip(OrElse(contact.LASTNAME, <<>>))
        name == Strip(OrElse(contact.NAME, <<>>))
    IN IF last_name # <<>> THEN [first |-> first_name, last |-> last_name, name |-> name]
       ELSE IF first_name # <<>> THEN [first |-> first_name, last |-> first_name, name |-> name]
       ELSE [first |-> name, last |-> name, name |-> name]

\* lines 345-353: the names stripped, a missing last name taken from the first
\* name, a missing first name taken from NAME
ResolveNames(contact) ==
    LET first_name == Strip(OrElse(contact.FIRSTNAME, <<>>))
        last_name == Strip(OrElse(contact.LASTNAME, <<>>))
        name == Strip(OrElse(contact.NAME, <<>>))
    IN IF last_name # <<>> THEN [first |-> first_name, last |-> last_name, name |-> name]
       ELSE IF first_name # <<>> THEN [first |-> first_name, last |-> first_name, name |-> name]
       ELSE [first |-> name, last |-> <<>>, name |-> name]

\* line 366 (and line 331 for Atera's contacts)
FullName(first, last) == Strip(first \o <<" ">> \o last)

\* str(n) of a natural number, as characters
RECURSIVE Decimal(_)
Decimal(n) == IF n < 10 THEN <<ToString(n)>> ELSE Decimal(n \div 10) \o <<ToString(n % 10)>>

\* lines 370-378 with the customer id left out of the generated email
ResolveEmailWithoutId(contact, first_name, last_name, customer_id) ==
    IF contact.EMAIL # <<>> /\ contact.EMAIL # NoneStr
    THEN Lower(Strip(contact.EMAIL))
    ELSE Lower(RemoveSpaces(first_name \o last_name)) \o ExampleDomain

\* lines 370-378: a null or empty EMAIL is replaced by a generated one
ResolveEmail(contact, first_name, last_name, customer_id) ==
    IF contact.EMAIL # <<>> /\ contact.EMAIL # NoneStr
    THEN Lower(Strip(contact.EMAIL))
    ELSE Lower(RemoveSpaces(first_name \o last_name)) \o Decimal(customer_id) \o ExampleDomain

\* the contact map keyed by the full name as spelled, not lower-cased
RECURSIVE BuildContactMapCaseSensitive(_, _)
BuildContactMapCaseSensitive(list, map) ==
    IF list = <<>> THEN map
    ELSE LET contact == Head(list)
             customer_id == contact.CustomerID
             full_name == FullName(Strip(contact.Firstname), Strip(contact.Lastname))
         IN BuildContactMapCaseSensitive(Tail(list),
                            IF customer_id # NoId /\ full_name # <<>>
                            THEN Put(map, <<customer_id, full_name>>, contact)
                            ELSE map)

\* lines 327-334: later contacts overwrite earlier ones under the same key
RECURSIVE BuildContactMap(_, _)
BuildContactMap(list, map) ==
    IF list = <<>> THEN map
    ELSE LET contact == Head(list)
             customer_id == contact.CustomerID
             full_name == FullName(Strip(contact.Firstname), Strip(contact.Lastname))
         IN BuildContactMap(Tail(list),
                            IF customer_id # NoId /\ full_name # <<>>
                            THEN Put(map, <<customer_id, Lower(full_name)>>, contact)
                            ELSE map)

\* the JSON body of update_atera_contact (lines 456-465)
ContactUpdatePayload(contact) ==
    [Email |-> contact.EMAIL,
     Firstname |-> OrElse(contact.FIRSTNAME, contact.NAME),
     Lastname |-> OrElse(contact.LASTNAME, contact.NAME),
     Phone |-> contact.PHONENUM,
     MobilePhone |-> contact.CELLPHONE]

\* the JSON body of create_atera_contact without the `or contact['NAME']` of
\* lines 426-427
ContactCreatePayloadWithoutName(customer_id, contact) ==
    [Email |-> contact.EMAIL,
     CustomerID |-> customer_id,
     Firstname |-> contact.FIRSTNAME,
     Lastname |-> contact.LASTNAME,
     Phone |-> contact.PHONENUM,
     MobilePhone |-> contact.CELLPHONE]

\* the JSON body of create_atera_contact (lines 423-434), without CreatedOn
ContactCreatePayload(customer_id, contact) ==
    [Email |-> contact.EMAIL,
     CustomerID |-> customer_id,
     Firstname |-> OrElse(contact.FIRSTNAME, contact.NAME),
     Lastname |-> OrElse(contact.LASTNAME, contact.NAME),
     Phone |-> contact.PHONENUM,
     MobilePhone |-> contact.CELLPHONE]

\* Atera applying a contact POST to /contacts: the new contact gets the next id
ApplyContactCreate(remote, data) ==
    Append(remote, [EndUserID |-> Len(remote) + 1, CustomerID |-> data.CustomerID,
                    Firstname |-> data.Firstname, Lastname |-> data.Lastname,
                    Email |-> data.Email])

\* Atera applying a contact POST to /contacts/{id}
ApplyContactUpdate(remote, contact_id, data) ==
    [j \in 1..Len(remote) |->
        IF remote[j].EndUserID = contact_id
        THEN [remote[j] EXCEPT !.Firstname = data.Firstname, !.Lastname = data.Lastname,
                               !.Email = data.Email]
        ELSE remote[j]]

ContactCall(k, op, id, data, st) ==
    [src |-> k, op |-> op, id |-> id, data |-> data, status |-> st]

\* what one source contact left behind: Atera's contacts, the requests made,
\* the side log, and the message logged for it
Outcome(remote, calls, file, hist, message) ==
    [contacts |-> remote, calls |-> calls, csvfile |-> file, logged |-> hist,
     message |-> message]

\* update_atera_contact (lines 448-470): raises on a status outside [200, 201]
update_atera_contact(remote, file, hist, k, contact_id, contact, st) ==
    LET data == ContactUpdatePayload(contact)
        post == ContactCall(k, "update", contact_id, data, st)
    IN IF ~Accepted(st)
       THEN Outcome(remote, <<post>>, file, hist, "Error processing contact")
       ELSE Outcome(ApplyContactUpdate(remote, contact_id, data), <<post>>, file, hist,
                    "Contact updated in Atera.")

\* create_atera_contact with a 409 branch that posts again under an email
\* prefixed by the CUSTNAME instead of writing to the side log
create_atera_contact_retrying(remote, file, hist, k, customer_id, contact, st) ==
    LET data == ContactCreatePayload(customer_id, contact)
        post == ContactCall(k, "create", NoId, data, st)
        retry == ContactCall(k, "create", NoId,
                             [data EXCEPT !.Email = <<contact.CUSTNAME>> \o data.Email], st)
    IN IF st = Conflict
       THEN Outcome(remote, <<post, retry>>, file, hist, "Error processing contact")
       ELSE IF ~Accepted(st)
       THEN Outcome(remote, <<post>>, file, hist, "Error processing contact")
       ELSE Outcome(ApplyContactCreate(remote, data), <<post>>, file, hist,
                    "Contact created in Atera.")

\* create_atera_contact (lines 415-446): a 409 is written to the side log and
\* nothing is raised; any other status outside [200, 201] raises
create_atera_contact(remote, file, hist, k, customer_id, contact, st) ==
    LET data == ContactCreatePayload(customer_id, contact)
        post == ContactCall(k, "create", NoId, data, st)
    IN IF st = Conflict
       THEN LET priority_customer_id == contact.CUSTNAME
            IN Outcome(remote, <<post>>,
                       log_failed_duplicate_email(file, customer_id, priority_customer_id,
                                                  contact.EMAIL),
                       Append(hist, Row(customer_id, priority_customer_id, contact.EMAIL)),
                       "Contact created in Atera.")
       ELSE IF ~Accepted(st)
       THEN Outcome(remote, <<post>>, file, hist, "Error processing contact")
       ELSE Outcome(ApplyContactCreate(remote, data), <<post>>, file, hist,
                    "Contact created in Atera.")

\* the checks of lines 339-359 without the check of lines 361-364
RejectionWithoutCustomerCheck(contact, customer_map) ==
    LET names == ResolveNames(contact)
    IN IF contact.CUSTNAME = Absent THEN "Error processing contact"
       ELSE IF ~Truthy(contact.CUSTNAME) THEN "Skipping contact with null CUSTNAME."
       ELSE IF names.first = <<>> /\ names.last = <<>> /\ names.name = <<>>
       THEN "Contact with missing name fields."
       ELSE ""

\* lines 339-364: the reason a source contact is skipped for, or "" when it is valid
Rejection(contact, customer_map) ==
    LET names == ResolveNames(contact)
    IN IF contact.CUSTNAME = Absent THEN "Error processing contact"
       ELSE IF ~Truthy(contact.CUSTNAME) THEN "Skipping contact with null CUSTNAME."
       ELSE IF names.first = <<>> /\ names.last = <<>> /\ names.name = <<>>
       THEN "Contact with missing name fields."
       ELSE IF Get(customer_map, contact.CUSTNAME) = NoId THEN "No matching customer in Atera"
       ELSE ""

\* the body of the loop of sync_contacts for one source contact (lines 338-400)
SyncOneContact(remote, file, hist, k, contact, customer_map, contact_map, st) ==
    LET rejection == Rejection(contact, customer_map)
    IN IF rejection # ""
       THEN Outcome(remote, <<>>, file, hist, rejection)
       ELSE LET customer_id == Get(customer_map, contact.CUSTNAME)
                names == ResolveNames(contact)
                full_name == FullName(names.first, names.last)
                key == <<customer_id, Lower(full_name)>>
                email == ResolveEmail(contact, names.first, names.last, customer_id)
                resolved == [contact EXCEPT !.FIRSTNAME = names.first,
                                            !.LASTNAME = names.last,
                                            !.EMAIL = email,
                                            !.PHONENUM = sanitize_phone_number(contact.PHONENUM),
                                            !.CELLPHONE = sanitize_phone_number(contact.CELLPHONE)]
            IN IF key \in DOMAIN contact_map
               THEN update_atera_contact(remote, file, hist, k, contact_map[key].EndUserID,
                                         resolved, st)
               ELSE create_atera_contact(remote, file, hist, k, customer_id, resolved, st)

\* Atera rejects a creation whose email a contact already has
EmailTaken(remote, email) == \E j \in 1..Len(remote) : remote[j].Email = email

\* whether Atera may answer the requests of one loop body this way: a creation
\* with a taken email is never accepted, an update is never a conflict, and any
\* other error status counts against MaxFaults
Forced(remote, call) == call.op = "create" /\ EmailTaken(remote, call.data.Email)
Answerable(remote, calls) ==
    /\ \A j \in 1..Len(calls) :
          /\ Forced(remote, calls[j]) => ~Accepted(calls[j].status)
          /\ calls[j].op = "update" => calls[j].status # Conflict
    /\ faults + Cardinality({j \in 1..Len(calls) :
                                /\ ~Accepted(calls[j].status)
                                /\ ~(Forced(remote, calls[j]) /\ calls[j].status = Conflict)})
         <= MaxFaults
FaultsOf(remote, calls) ==
    Cardinality({j \in 1..Len(calls) :
                    /\ ~Accepted(calls[j].status)
                    /\ ~(Forced(remote, calls[j]) /\ calls[j].status = Conflict)})

\* the loop without its try/except: what is raised for a contact ends the run
AfterContactUncaught(message, last) ==
    IF message = "Error processing contact" THEN "raised"
    ELSE IF last THEN "done"
    ELSE "loop"

\* lines 337, 397-400: the except clause logs and continues, so the loop goes
\* on to the next contact whatever the body did, and ends after the last one
AfterContact(message, last) == IF last THEN "done" ELSE "loop"

\* lines 316-334: the three lists are fetched and the two maps built; a failing
\* fetch raises out of sync_contacts
sync_contacts_fetch ==
    /\ cont_pc \in {"idle", "done", "raised"}
    /\ cont_run < MaxContactRuns
    /\ cont_run' = cont_run + 1
    /\ cont_calls' = <<>>
    /\ cont_log' = <<>>
    /\ cont_i' = 1
    /\ \E st \in Answers(1) :
         IF st # OK
         THEN /\ cont_pc' = "raised"
              /\ atera_contacts' = <<>>
              /\ atera_customer_map' = EmptyMap
              /\ atera_contact_map' = EmptyMap
              /\ faults' = faults + 1
         ELSE \E readFailed \in SUBSET HoldersOfValue(atera) :
                /\ faults + Cardinality(readFailed) <= MaxFaults
                /\ faults' = faults + Cardinality(readFailed)
                /\ atera_customer_map' = BuildIdMap(get_atera_customers(atera, readFailed), EmptyMap)
                /\ atera_contacts' = atera_contact_list
                /\ atera_contact_map' = BuildContactMap(atera_contacts', EmptyMap)
                /\ cont_pc' = IF priority_contacts = <<>> THEN "done" ELSE "loop"
    /\ UNCHANGED <<priority_contacts, atera_contact_list, atera, custVars, logVars,
                   fnVars, tickVars, ctrVars,
                   pageVars, mainVars>>

\* one iteration of `for contact in priority_contacts` (lines 337-400): whatever
\* is raised inside is caught and the loop goes on
sync_contacts_step ==
    /\ cont_pc = "loop"
    /\ \E st \in {OK, Conflict, ServerError} :
         LET r == SyncOneContact(atera_contact_list, csvfile, logged, cont_i,
                                 priority_contacts[cont_i], atera_customer_map,
                                 atera_contact_map, st)
         IN /\ Answerable(atera_contact_list, r.calls)
            /\ atera_contact_list' = r.contacts
            /\ cont_calls' = cont_calls \o r.calls
            /\ cont_log' = Append(cont_log, [src |-> cont_i, message |-> r.message])
            /\ csvfile' = r.csvfile
            /\ logged' = r.logged
            /\ faults' = faults + FaultsOf(atera_contact_list, r.calls)
            /\ cont_i' = cont_i + 1
            /\ cont_pc' = AfterContact(r.message, cont_i = Len(priority_contacts))
    /\ UNCHANGED <<priority_contacts, cont_run, atera_contacts, atera_customer_map,
                   atera_contact_map, atera, custVars, fnVars, tickVars, ctrVars,
                   pageVars, mainVars>>

\* one call of log_failed_duplicate_email on its own, with any arguments
log_failed_duplicate_email_call ==
    /\ Len(logged) < MaxLogCalls
    /\ \E customer_id \in 1..2, priority_customer_id \in {CustName(1), CustName(2)},
          email \in {<<"x", "@">>, <<"a", "a", "1">> \o ExampleDomain} :
         /\ csvfile' = log_failed_duplicate_email(csvfile, customer_id, priority_customer_id, email)
         /\ logged' = Append(logged, Row(customer_id, priority_customer_id, email))
    /\ UNCHANGED <<custVars, contVars, atera, faults, fnVars, tickVars, ctrVars,
                   pageVars, mainVars>>

\* a source contact; the phone numbers are the same for all
Contact(custname, first, last, name, email) ==
    [CUSTNAME |-> custname, FIRSTNAME |-> first, LASTNAME |-> last, NAME |-> name,
     EMAIL |-> email, PHONENUM |-> <<"(", "5", ")", "-", "1">>, CELLPHONE |-> <<"n", "/", "a">>]

\* the source contacts a list is drawn from: a first name only; a last name
\* with NAME and an email; both names; NAME only, under another customer; and
\* five that fail validation
SourceContacts ==
    {Contact(CustName(1), <<"A", " ">>, <<>>, <<>>, <<>>),
     Contact(CustName(1), <<>>, <<"b">>, <<"A", " ", "b">>, <<" ", "X", "@">>),
     Contact(CustName(1), <<"A">>, <<"B", " ">>, <<>>, <<>>),
     Contact(CustName(2), <<>>, <<>>, <<" ", "a", " ", "B">>, <<>>),
     Contact(None, <<"A">>, <<"B", " ">>, <<>>, <<>>),
     Contact("", <<"A">>, <<"B", " ">>, <<>>, <<>>),
     Contact(Absent, <<"A">>, <<"B", " ">>, <<>>, <<>>),
     Contact("C9", <<"A">>, <<"B", " ">>, <<>>, <<>>),
     Contact(CustName(1), <<>>, <<" ">>, <<>>, <<"X", "@">>)}

\* the contacts Atera may hold before the first run, each with its own email:
\* the same name under two customers, and a second contact of that name under
\* the first customer, whose email is the one generated for a source contact
TargetContact(customer_id, first, last, email) ==
    [EndUserID |-> NoId, CustomerID |-> customer_id, Firstname |-> first, Lastname |-> last,
     Email |-> email]
TargetContacts ==
    {TargetContact(1, <<"a">>, <<"B", " ">>, <<"x", "@">>),
     TargetContact(2, <<"a">>, <<"B", " ">>, <<"y", "@">>),
     TargetContact(1, <<" ", "A">>, <<"b">>, <<"a", "a", "1">> \o ExampleDomain)}
TargetContactLists(n) ==
    {[j \in 1..n |-> [t[j] EXCEPT !.EndUserID = j]] :
        t \in {u \in [1..n -> TargetContacts] : \A i, j \in 1..n : i # j => u[i] # u[j]}}

\* the customers Atera holds while contacts are synchronised: two with a
\* cross-reference and one without
ContactCustomers ==
    <<[CustomerID |-> 1, CustomerName |-> <<"b">>, PriorityCustomerNumber |-> CustName(1),
       Phone |-> <<"5">>],
      [CustomerID |-> 2, CustomerName |-> <<"b">>, PriorityCustomerNumber |-> CustName(2),
       Phone |-> <<"5">>],
      [CustomerID |-> 3, CustomerName |-> <<"b">>, PriorityCustomerNumber |-> None,
       Phone |-> <<"5">>]>>

\* sync_contacts before its first run
ContactsIdle(sources, targets) ==
    /\ priority_contacts = sources
    /\ atera_contact_list = targets
    /\ cont_pc = "idle"
    /\ cont_run = 0
    /\ atera_contacts = <<>>
    /\ atera_customer_map = EmptyMap
    /\ atera_contact_map = EmptyMap
    /\ cont_i = 1
    /\ cont_calls = <<>>
    /\ cont_log = <<>>

\* no side log yet
LogIdle ==
    /\ csvfile = NoFile
    /\ logged = <<>>

(* --------------------------- sync_contracts ---------------------------- *)

\* STATDES of an active source customer (line 923), of any other customer, of a
\* cancelled source contract (line 931) and of any other contract
ActiveStatus == "active"
InactiveStatus == "inactive"
CancelledStatus == "cancelled"
OpenStatus == "open"

\* line 894: source customers by CUSTDES, later ones overwriting earlier ones
RECURSIVE BuildCustomersByName(_, _)
BuildCustomersByName(list, map) ==
    IF list = <<>> THEN map
    ELSE BuildCustomersByName(Tail(list), Put(map, Head(list).CUSTDES, Head(list)))

\* lines 913-941: the reason a source contract is skipped for, or "" when the
\* loop goes on to look for it in Atera
ContractSkipped(contract, customers_map, id_map) ==
    LET custname == contract.CUSTNAME
        custdes == contract.CUSTDES
        doc_no == contract.DOCNO
    IN IF ~Truthy(custname) \/ ~Truthy(doc_no) THEN "Missing CUSTNAME or DOCNO in contract, skipping"
       ELSE IF custdes \notin DOMAIN customers_map THEN "No matching customer in Priority"
       ELSE IF customers_map[custdes].STATDES # ActiveStatus
       THEN "Skipping contract because customer is not active."
       ELSE IF contract.STATDES = CancelledStatus
       THEN "Skipping contract because contract STATDES is cancelled."
       ELSE IF Get(id_map, custname) = NoId THEN "No matching Atera customer"
       ELSE ""

\* get_atera_contracts_for_customer finding no contract
get_atera_contracts_of_none(remote, customer_id) == <<>>

\* get_atera_contracts_for_customer listing the contracts of every customer
get_atera_contracts_of_all(remote, customer_id) == remote

\* get_atera_contracts_for_customer (lines 756-784): the contracts of one customer
get_atera_contracts_for_customer(remote, customer_id) ==
    SelectSeq(remote, LAMBDA c : c.CustomerID = customer_id)

CtrCall(k, op, id, data, st) == [src |-> k, op |-> op, id |-> id, data |-> data, status |-> st]

\* lines 948-953: the custom field of the customer's contracts is read one by
\* one up to the first that holds doc_no; the read numbered failAt is answered
\* with an error status and raises (lines 876-881), a contract without a value
\* is answered 404 and read as None
RECURSIVE ReadContracts(_, _, _, _, _)
ReadContracts(k, list, doc_no, n, failAt) ==
    IF list = <<>> THEN <<>>
    ELSE LET a_contract_id == Head(list).ContractID
             value == Head(list).PriorityContractNumber
         IN IF n = failAt THEN <<CtrCall(k, "read", a_contract_id, None, ServerError)>>
            ELSE <<CtrCall(k, "read", a_contract_id, value,
                           IF value = None THEN NotFound ELSE OK)>>
                 \o (IF value = doc_no THEN <<>>
                     ELSE ReadContracts(k, Tail(list), doc_no, n + 1, failAt))

\* lines 804-823
ContractPayload(customer_id, contract) ==
    [ContractName |-> IF Truthy(contract.UNI_DESC) THEN contract.UNI_DESC ELSE "Contract",
     CustomerID |-> customer_id,
     Active |-> contract.STATDES # CancelledStatus]

\* the ActionID Atera answers a creation with
NewContractId(remote) == Len(remote) + 1

\* create_atera_contract without lines 834-838: the custom field is not written
create_atera_contract_without_write(remote, k, customer_id, contract, stPost, stPut) ==
    LET data == ContractPayload(customer_id, contract)
        post == CtrCall(k, "create", NoId, data, stPost)
        created == Append(remote, [ContractID |-> NewContractId(remote),
                                   CustomerID |-> customer_id,
                                   PriorityContractNumber |-> None])
    IN IF ~data.Active THEN [contracts |-> remote, calls |-> <<>>, raised |-> FALSE]
       ELSE IF ~Accepted(stPost) THEN [contracts |-> remote, calls |-> <<post>>, raised |-> TRUE]
       ELSE [contracts |-> created, calls |-> <<post>>, raised |-> FALSE]

\* create_atera_contract (lines 787-840): nothing for a cancelled contract;
\* otherwise the POST, and after a 2xx the write of DOCNO into the custom field
\* of the new contract; either request raises on an error status
create_atera_contract(remote, k, customer_id, contract, stPost, stPut) ==
    LET data == ContractPayload(customer_id, contract)
        post == CtrCall(k, "create", NoId, data, stPost)
        created_id == NewContractId(remote)
        created == Append(remote, [ContractID |-> created_id, CustomerID |-> customer_id,
                                   PriorityContractNumber |-> None])
        put == CtrCall(k, "write", created_id, contract.DOCNO, stPut)
        written == [created EXCEPT ![created_id].PriorityContractNumber = contract.DOCNO]
    IN IF ~data.Active THEN [contracts |-> remote, calls |-> <<>>, raised |-> FALSE]
       ELSE IF ~Accepted(stPost) THEN [contracts |-> remote, calls |-> <<post>>, raised |-> TRUE]
       ELSE IF ~Accepted(stPut)
       THEN [contracts |-> created, calls |-> <<post, put>>, raised |-> TRUE]
       ELSE [contracts |-> written, calls |-> <<post, put>>, raised |-> FALSE]

\* the body of the loop of sync_contracts for one source contract (lines 908-962)
SyncOneContract(remote, k, contract, customers_map, id_map, stList, failAt, stPost, stPut) ==
    IF ContractSkipped(contract, customers_map, id_map) # ""
    THEN [contracts |-> remote, calls |-> <<>>, raised |-> FALSE]
    ELSE LET customer_id == Get(id_map, contract.CUSTNAME)
             list == CtrCall(k, "list", customer_id, None, stList)
             atera_contracts == get_atera_contracts_for_customer(remote, customer_id)
             reads == ReadContracts(k, atera_contracts, contract.DOCNO, 1, failAt)
             exists == \E j \in 1..Len(reads) : reads[j].data = contract.DOCNO
             failed == \E j \in 1..Len(reads) : reads[j].status = ServerError
         IN IF stList # OK
            THEN [contracts |-> remote, calls |-> <<list>>, raised |-> TRUE]
            ELSE IF failed
            THEN [contracts |-> remote, calls |-> <<list>> \o reads, raised |-> TRUE]
            ELSE IF exists
            THEN [contracts |-> remote, calls |-> <<list>> \o reads, raised |-> FALSE]
            ELSE LET r == create_atera_contract(remote, k, customer_id, contract, stPost, stPut)
                 IN [r EXCEPT !.calls = <<list>> \o reads \o @]

(* ---------------------------- sync_tickets ----------------------------- *)

\* float(s) for strings of digits, '.', blanks and other characters, as a
\* number of tenths: blanks around are ignored, then digits with at most one
\* '.' and at least one digit are a number and anything else raises
\* ValueError; the strings given here have at most one digit after the '.'
FloatParses(s) ==
    LET t == Strip(s)
    IN /\ \A i \in 1..Len(t) : t[i] \in Digits \cup {"."}
       /\ \E i \in 1..Len(t) : t[i] \in Digits
       /\ Cardinality({i \in 1..Len(t) : t[i] = "."}) <= 1
Float(s) ==
    LET t == Strip(s)
        dot == IF \E i \in 1..Len(t) : t[i] = "." THEN CHOOSE i \in 1..Len(t) : t[i] = "."
               ELSE Len(t) + 1
    IN 10 * NumberOf(SubSeq(t, 1, dot - 1)) + NumberOf(SubSeq(t, dot + 1, Len(t)))

\* lines 689-703 reading the hours as a whole number, the fraction dropped
QuantityOfWholeHours(tech_hours_str) ==
    IF tech_hours_str = NoneStr \/ tech_hours_str = <<>> THEN 0
    ELSE IF FloatParses(tech_hours_str) THEN 10 * (Float(tech_hours_str) \div 10)
    ELSE 0

\* lines 689-703: the hours as a number (of tenths), 0 when the field is
\* missing or empty and 0 when it does not parse
Quantity(tech_hours_str) ==
    IF tech_hours_str = NoneStr \/ tech_hours_str = <<>> THEN 0
    ELSE IF FloatParses(tech_hours_str) THEN Float(tech_hours_str)
    ELSE 0

\* line 676 taking only None for a missing CUSTNAME
UnresolvedIfNone(custname) == custname = None

\* line 676: `if not custname`
Unresolved(custname) == ~Truthy(custname)

\* line 662 leaving the cache as it is
CacheNotFoundNowhere(cache, customer_id) == cache

\* line 662: a customer Atera does not know is cached as None
CacheNotFound(cache, customer_id) == Put(cache, customer_id, None)

\* get_atera_customer (lines 562-583): the customer, or None on 404
get_atera_customer(remote, customer_id) ==
    IF \E j \in 1..Len(remote) : remote[j].CustomerID = customer_id
    THEN remote[CHOOSE j \in 1..Len(remote) : remote[j].CustomerID = customer_id]
    ELSE [CustomerID |-> NoId]

TicketCall(k, op, id, data, st) == [src |-> k, op |-> op, id |-> id, data |-> data, status |-> st]

\* lines 541-554
TicketPayload(custname, docno, tquant, ticket_status, payment_type) ==
    [CUSTNAME |-> custname, ATERADOCNO |-> docno, TQUANT |-> tquant,
     ATERASTATUS |-> ticket_status, ATERATICKETTYPE |-> payment_type]

\* lines 682-705 for a ticket whose customer has the Priority number custname:
\* the two custom fields are read and the ticket is pushed; fail names the
\* request answered with an error status, which raises
PushTicket(k, ticket, custname, cache, fail) ==
    LET ticket_status == ticket.TicketStatus
        docno == Decimal(ticket.TicketID)
        tech_hours_str == ticket.hours
        payment_type == ticket.payment
        hours == TicketCall(k, "hours", ticket.TicketID, tech_hours_str,
                            IF fail = "hours" THEN ServerError
                            ELSE IF tech_hours_str = NoneStr THEN NotFound ELSE OK)
        payment == TicketCall(k, "payment", ticket.TicketID, payment_type,
                              IF fail = "payment" THEN ServerError
                              ELSE IF payment_type = None THEN NotFound ELSE OK)
        tquant == Quantity(tech_hours_str)
        push == TicketCall(k, "push", ticket.TicketID,
                           TicketPayload(custname, docno, tquant, ticket_status, payment_type),
                           IF fail = "push" THEN ServerError ELSE OK)
    IN IF fail = "hours" THEN [cache |-> cache, calls |-> <<hours>>, raised |-> TRUE]
       ELSE IF fail = "payment"
       THEN [cache |-> cache, calls |-> <<hours, payment>>, raised |-> TRUE]
       ELSE [cache |-> cache, calls |-> <<hours, payment, push>>, raised |-> fail = "push"]

\* the body of the loop of sync_tickets for one ticket (lines 645-705)
SyncOneTicket(remote, k, ticket, cache, fail) ==
    LET customer_id == ticket.CustomerID
        atera_customer == get_atera_customer(remote, customer_id)
        customer == TicketCall(k, "customer", customer_id, None,
                               IF fail = "customer" THEN ServerError
                               ELSE IF atera_customer.CustomerID = NoId THEN NotFound ELSE OK)
        priority_customer_number ==
            IF atera_customer.CustomerID = NoId THEN None
            ELSE atera_customer.PriorityCustomerNumber
        field == TicketCall(k, "field", customer_id, None,
                            IF fail = "field" THEN ServerError
                            ELSE IF priority_customer_number = None THEN NotFound ELSE OK)
    IN IF customer_id = NoId THEN [cache |-> cache, calls |-> <<>>, raised |-> FALSE]
       ELSE IF customer_id \in DOMAIN cache
       THEN IF Unresolved(cache[customer_id])
            THEN [cache |-> cache, calls |-> <<>>, raised |-> FALSE]
            ELSE PushTicket(k, ticket, cache[customer_id], cache, fail)
       ELSE IF fail = "customer" THEN [cache |-> cache, calls |-> <<customer>>, raised |-> TRUE]
       ELSE IF atera_customer.CustomerID = NoId
       THEN [cache |-> CacheNotFound(cache, customer_id), calls |-> <<customer>>,
             raised |-> FALSE]
       ELSE IF fail = "field"
       THEN [cache |-> cache, calls |-> <<customer, field>>, raised |-> TRUE]
       ELSE LET cached == Put(cache, customer_id, priority_customer_number)
            IN IF Unresolved(priority_customer_number)
               THEN [cache |-> cached, calls |-> <<customer, field>>, raised |-> FALSE]
               ELSE LET r == PushTicket(k, ticket, priority_customer_number, cached, fail)
                    IN [r EXCEPT !.calls = <<customer, field>> \o @]

\* the requests of a call list that were answered with a server error
ServerErrors(calls) == Cardinality({j \in 1..Len(calls) : calls[j].status = ServerError})

\* lines 891-906: the source customers, the source contracts and Atera's
\* customers are fetched and the two maps built; a failing fetch raises out of
\* sync_contracts, and without source contracts the run ends at line 901
sync_contracts_fetch ==
    /\ ctr_pc \in {"idle", "done", "raised"}
    /\ ctr_run < MaxContractRuns
    /\ ctr_run' = ctr_run + 1
    /\ ctr_calls' = <<>>
    /\ ctr_i' = 1
    /\ \E st \in Answers(1) :
         IF st # OK
         THEN /\ ctr_pc' = "raised"
              /\ priority_customers_map' = EmptyMap
              /\ cust_map' = EmptyMap
              /\ faults' = faults + 1
         ELSE /\ priority_customers_map' = BuildCustomersByName(priority_customers, EmptyMap)
              /\ IF priority_contracts = <<>>
                 THEN /\ ctr_pc' = "done"
                      /\ cust_map' = EmptyMap
                      /\ faults' = faults
                 ELSE \E readFailed \in SUBSET HoldersOfValue(atera) :
                        /\ faults + Cardinality(readFailed) <= MaxFaults
                        /\ faults' = faults + Cardinality(readFailed)
                        /\ cust_map' = BuildIdMap(get_atera_customers(atera, readFailed), EmptyMap)
                        /\ ctr_pc' = "loop"
    /\ UNCHANGED <<priority_contracts, atera_contract_list, priority_customers, atera,
                   cust_pc, cust_run, atera_customers, atera_customer_id_map,
                   atera_customer_name_map, cust_i, cust_calls, cust_log, cust_prev,
                   contVars, logVars, fnVars, tickVars, pageVars, mainVars>>

\* one iteration of `for contract in priority_contracts` (lines 908-962):
\* nothing catches what a request raises; the error statuses chosen are those
\* of requests the iteration makes
sync_contracts_step ==
    /\ ctr_pc = "loop"
    /\ \E stList \in {OK, ServerError}, stPost \in {OK, ServerError}, stPut \in {OK, ServerError},
          failAt \in 0..Len(atera_contract_list) :
         LET r == SyncOneContract(atera_contract_list, ctr_i, priority_contracts[ctr_i],
                                  priority_customers_map, cust_map, stList, failAt, stPost, stPut)
             chosen == (IF stList # OK THEN 1 ELSE 0) + (IF failAt # 0 THEN 1 ELSE 0)
                       + (IF stPost # OK THEN 1 ELSE 0) + (IF stPut # OK THEN 1 ELSE 0)
         IN /\ ServerErrors(r.calls) = chosen
            /\ faults + ServerErrors(r.calls) <= MaxFaults
            /\ faults' = faults + ServerErrors(r.calls)
            /\ atera_contract_list' = r.contracts
            /\ ctr_calls' = ctr_calls \o r.calls
            /\ ctr_i' = ctr_i + 1
            /\ ctr_pc' = IF r.raised THEN "raised"
                         ELSE IF ctr_i = Len(priority_contracts) THEN "done"
                         ELSE "loop"
    /\ UNCHANGED <<priority_contracts, ctr_run, priority_customers_map, cust_map,
                   custVars, contVars, logVars, fnVars, tickVars, atera, pageVars, mainVars>>

\* sync_tickets up to its loop (lines 634-643): the tickets of the window are
\* fetched, and without tickets the run is over
sync_tickets_fetch ==
    /\ tick_pc = "idle"
    /\ tick_i' = 1
    /\ tick_calls' = <<>>
    /\ priority_customer_cache' = EmptyMap
    /\ \E st \in Answers(1) :
         /\ faults' = IF st = OK THEN faults ELSE faults + 1
         /\ tick_pc' = IF st # OK THEN "raised"
                        ELSE IF tickets = <<>> THEN "done"
                        ELSE "loop"
    /\ UNCHANGED <<tickets, custVars, contVars, logVars, fnVars, ctrVars, atera,
                   pageVars, mainVars>>

\* the requests of one ticket, or none of them, as the one answered with an error
TicketFailures == {"none", "customer", "field", "hours", "payment", "push"}

\* one iteration of `for ticket in tickets` (lines 645-705): nothing catches
\* what a request raises
sync_tickets_step ==
    /\ tick_pc = "loop"
    /\ \E fail \in TicketFailures :
         LET r == SyncOneTicket(atera, tick_i, tickets[tick_i], priority_customer_cache, fail)
         IN /\ ServerErrors(r.calls) = IF fail = "none" THEN 0 ELSE 1
            /\ faults + ServerErrors(r.calls) <= MaxFaults
            /\ faults' = faults + ServerErrors(r.calls)
            /\ priority_customer_cache' = r.cache
            /\ tick_calls' = tick_calls \o r.calls
            /\ tick_i' = tick_i + 1
            /\ tick_pc' = IF r.raised THEN "raised"
                          ELSE IF tick_i = Len(tickets) THEN "done"
                          ELSE "loop"
    /\ UNCHANGED <<tickets, custVars, contVars, logVars, fnVars, ctrVars, atera,
                   pageVars, mainVars>>

\* no function called on its own
Pending == [status |-> "pending"]
\* what a call ended with: a value returned, or a record rejected with a reason
Returned(value) == [status |-> "returned", value |-> value]
Rejecting(reason) == [status |-> "rejected", reason |-> reason]
FunctionsIdle ==
    /\ fn_args = [fn |-> "none"]
    /\ fn_result = Pending

\* sync_tickets before it runs
TicketsIdle ==
    /\ tickets = <<>>
    /\ tick_pc = "idle"
    /\ tick_i = 1
    /\ priority_customer_cache = EmptyMap
    /\ tick_calls = <<>>

\* sync_contracts before its first run, over what Priority and Atera hold
ContractsIdle(sources, targets) ==
    /\ priority_contracts = sources
    /\ atera_contract_list = targets
    /\ ctr_pc = "idle"
    /\ ctr_run = 0
    /\ ctr_i = 1
    /\ priority_customers_map = EmptyMap
    /\ cust_map = EmptyMap
    /\ ctr_calls = <<>>

\* no pagination loop running
PagesIdle ==
    /\ pg_fn = "none"
    /\ pg_remote = <<>>
    /\ pg_page = 1
    /\ pg_pc = "idle"
    /\ pg_result = <<>>

\* main not started
MainIdle ==
    /\ main_pc = "idle"
    /\ enabled = {}

\* everything but sync_customers, sync_contacts and the side log at rest
OthersIdle ==
    /\ FunctionsIdle
    /\ TicketsIdle
    /\ ContractsIdle(<<>>, <<>>)
    /\ PagesIdle
    /\ MainIdle

NoRun == [calls |-> <<>>, log |-> <<>>, pc |-> "idle"]

\* sync_customers before its first run, over the given source customers
CustomersIdle(sources) ==
    /\ priority_customers = sources
    /\ cust_pc = "idle"
    /\ cust_run = 0
    /\ atera_customers = <<>>
    /\ atera_customer_id_map = EmptyMap
    /\ atera_customer_name_map = EmptyMap
    /\ cust_i = 1
    /\ cust_calls = <<>>
    /\ cust_log = <<>>
    /\ cust_prev = NoRun

InitCustomers(ages) ==
    /\ \E n \in 0..MaxSrc : \E sources \in SourceCustomers(n, ages) : CustomersIdle(sources)
    /\ \E n \in 0..MaxTgt : atera \in TargetCustomers(n)
    /\ ContactsIdle(<<>>, <<>>)
    /\ LogIdle
    /\ OthersIdle
    /\ faults = 0

Init == InitCustomers({ModifiedNow})

Next ==
    \/ sync_customers_fetch
    \/ sync_customers_step

\* runs of sync_customers over source customers that were all modified now
Spec == Init /\ [][Next]_vars

\* runs of sync_customers over source customers modified now or long ago
InitWindow == InitCustomers({ModifiedNow, ModifiedLongAgo})
SpecWindow == InitWindow /\ [][Next]_vars

\* runs of sync_contacts
InitContacts ==
    /\ CustomersIdle(<<>>)
    /\ atera = ContactCustomers
    /\ \E n \in 0..MaxContacts : \E sources \in [1..n -> SourceContacts] :
         \E m \in 0..MaxTgtContacts : \E targets \in TargetContactLists(m) :
            ContactsIdle(sources, targets)
    /\ LogIdle
    /\ OthersIdle
    /\ faults = 0
\* one run of sync_contacts
NextContacts ==
    \/ cont_run = 0 /\ sync_contacts_fetch
    \/ sync_contacts_step
SpecContacts == InitContacts /\ [][NextContacts]_vars

\* runs of sync_contacts one after the other over the same source contacts,
\* each run reading the contacts the runs before it left in Atera, which holds
\* no contact before the first run
InitUpsert ==
    /\ CustomersIdle(<<>>)
    /\ atera = ContactCustomers
    /\ \E n \in 0..MaxContacts : \E sources \in [1..n -> SourceContacts] :
         ContactsIdle(sources, <<>>)
    /\ LogIdle
    /\ OthersIdle
    /\ faults = 0
NextUpsert ==
    \/ sync_contacts_fetch
    \/ sync_contacts_step
SpecUpsert == InitUpsert /\ [][NextUpsert]_vars

\* calls of log_failed_duplicate_email alone
InitLog ==
    /\ CustomersIdle(<<>>)
    /\ atera = <<>>
    /\ ContactsIdle(<<>>, <<>>)
    /\ LogIdle
    /\ OthersIdle
    /\ faults = 0
NextLog == log_failed_duplicate_email_call
SpecLog == InitLog /\ [][NextLog]_vars

(* ------------------------ runs of sync_contracts ----------------------- *)

\* two source customers, of the same name or not, each active or not
ContractCustomerLists ==
    {<<[CUSTNAME |-> CustName(1), CUSTDES |-> <<"X">>, STATDES |-> s1],
       [CUSTNAME |-> CustName(2), CUSTDES |-> d2, STATDES |-> s2]>> :
        s1 \in {ActiveStatus, InactiveStatus}, s2 \in {ActiveStatus, InactiveStatus},
        d2 \in {<<"X">>, <<"Y">>}}

\* a source contract carries the name of the customer it belongs to
SourceContract(customers, k, doc_no, statdes, uni_desc) ==
    [CUSTNAME |-> customers[k].CUSTNAME, CUSTDES |-> customers[k].CUSTDES, DOCNO |-> doc_no,
     STATDES |-> statdes, UNI_DESC |-> uni_desc]
\* the source contracts a list is drawn from: open or cancelled, of either
\* customer, with and without a description, and one without DOCNO
SourceContracts(customers) ==
    {SourceContract(customers, 1, "D1", OpenStatus, "S"),
     SourceContract(customers, 1, "D1", CancelledStatus, "S"),
     SourceContract(customers, 1, "D2", OpenStatus, None),
     SourceContract(customers, 2, "D1", OpenStatus, "S"),
     SourceContract(customers, 1, None, OpenStatus, "S")}

\* the contracts Atera may hold before the first run: with the DOCNO of a
\* source contract, under either customer, and without a value
TargetContract(customer_id, doc_no) ==
    [ContractID |-> NoId, CustomerID |-> customer_id, PriorityContractNumber |-> doc_no]
TargetContracts ==
    {TargetContract(1, "D1"), TargetContract(1, None), TargetContract(2, "D1")}
TargetContractLists(n) ==
    {[j \in 1..n |-> [t[j] EXCEPT !.ContractID = j]] :
        t \in {u \in [1..n -> TargetContracts] : \A i, j \in 1..n : i # j => u[i] # u[j]}}

InitContracts ==
    /\ \E customers \in ContractCustomerLists :
          /\ CustomersIdle(customers)
          /\ \E n \in 0..MaxContracts : \E sources \in [1..n -> SourceContracts(customers)] :
               \E m \in 0..MaxTgtContracts : \E targets \in TargetContractLists(m) :
                  ContractsIdle(sources, targets)
    /\ atera = ContactCustomers
    /\ ContactsIdle(<<>>, <<>>)
    /\ LogIdle
    /\ FunctionsIdle
    /\ TicketsIdle
    /\ PagesIdle
    /\ MainIdle
    /\ faults = 0
\* one run of sync_contracts
NextContracts ==
    \/ ctr_run = 0 /\ sync_contracts_fetch
    \/ sync_contracts_step
SpecContracts == InitContracts /\ [][NextContracts]_vars

\* runs of sync_contracts one after the other over the same source data, each
\* run reading the contracts the runs before it left in Atera, which holds no
\* contract before the first run
InitContractRuns ==
    /\ \E customers \in ContractCustomerLists :
          /\ CustomersIdle(customers)
          /\ \E n \in 0..MaxContracts : \E sources \in [1..n -> SourceContracts(customers)] :
               ContractsIdle(sources, <<>>)
    /\ atera = ContactCustomers
    /\ ContactsIdle(<<>>, <<>>)
    /\ LogIdle
    /\ FunctionsIdle
    /\ TicketsIdle
    /\ PagesIdle
    /\ MainIdle
    /\ faults = 0
NextContractRuns ==
    \/ sync_contracts_fetch
    \/ sync_contracts_step
SpecContractRuns == InitContractRuns /\ [][NextContractRuns]_vars

(* ------------------------- runs of sync_tickets ------------------------ *)

\* Atera for the tickets: a customer with a Priority number, one without the
\* custom field and one with an empty value; no customer has the id 4
TicketCustomers ==
    <<[CustomerID |-> 1, CustomerName |-> <<"b">>, PriorityCustomerNumber |-> CustName(1),
       Phone |-> <<"5">>],
      [CustomerID |-> 2, CustomerName |-> <<"b">>, PriorityCustomerNumber |-> None,
       Phone |-> <<"5">>],
      [CustomerID |-> 3, CustomerName |-> <<"b">>, PriorityCustomerNumber |-> "",
       Phone |-> <<"5">>]>>
UnknownCustomerId == 4

\* the k-th ticket of the list, with what its two custom fields hold (NoneStr
\* and None where the ticket has no such value)
Ticket(k, customer_id, hours, payment) ==
    [TicketID |-> k, CustomerID |-> customer_id, TicketStatus |-> "Open",
     hours |-> hours, payment |-> payment]
\* Technician Billable Hours: missing, empty, blank, numbers and no number
HoursValues ==
    {NoneStr, <<>>, <<" ">>, <<"2">>, <<" ", "2", ".", "5">>, <<"x">>, <<"2", ",", "5">>}
TicketsAt(k) ==
    {Ticket(k, 1, hours, "P") : hours \in HoursValues}
    \cup {Ticket(k, 1, <<"2", ".", "5">>, None)}
    \cup {Ticket(k, customer_id, <<"2">>, "P") : customer_id \in {NoId, 2, 3, UnknownCustomerId}}
TicketLists(n) == {list \in [1..n -> UNION {TicketsAt(k) : k \in 1..n}] :
                     \A k \in 1..n : list[k].TicketID = k}

InitTickets ==
    /\ \E n \in 0..MaxTickets : tickets \in TicketLists(n)
    /\ tick_pc = "idle"
    /\ tick_i = 1
    /\ priority_customer_cache = EmptyMap
    /\ tick_calls = <<>>
    /\ atera = TicketCustomers
    /\ CustomersIdle(<<>>)
    /\ ContactsIdle(<<>>, <<>>)
    /\ LogIdle
    /\ FunctionsIdle
    /\ ContractsIdle(<<>>, <<>>)
    /\ PagesIdle
    /\ MainIdle
    /\ faults = 0
NextTickets ==
    \/ sync_tickets_fetch
    \/ sync_tickets_step
SpecTickets == InitTickets /\ [][NextTickets]_vars

(* -------------------- functions called on their own -------------------- *)

\* the strings of at most n characters of an alphabet
Strings(alphabet, n) == UNION {[1..k -> alphabet] : k \in 0..n}

\* lines 345-359 on their own: the resolved names, or the rejection
MissingNames == "Contact with missing name fields."
NamesOrRejection(contact) ==
    LET names == ResolveNames(contact)
    IN IF names.first = <<>> /\ names.last = <<>> /\ names.name = <<>>
       THEN Rejecting(MissingNames)
       ELSE Returned(<<names.first, names.last>>)

\* the name fields of a source contact: null, or letters and blanks
NameCalls ==
    [fn : {"names"},
     contact : [FIRSTNAME : Strings({" ", "a"}, MaxNameLen) \cup {NoneStr},
                LASTNAME : Strings({" ", "b"}, MaxNameLen) \cup {NoneStr},
                NAME : Strings({" ", "c"}, MaxNameLen) \cup {NoneStr}]]

resolve_names_call ==
    /\ fn_args.fn = "names"
    /\ fn_result = Pending
    /\ fn_result' = NamesOrRejection(fn_args.contact)
    /\ UNCHANGED <<fn_args, custVars, contVars, logVars, tickVars, ctrVars, atera, faults,
                   pageVars, mainVars>>

\* lines 370-378 on their own: an EMAIL that is null, empty, blank or padded,
\* resolved names with blanks, capitals and digits, and any customer id
EmailCalls ==
    [fn : {"email"},
     contact : [EMAIL : {NoneStr, <<>>, <<" ">>, <<" ", "X", "@">>, <<"x", "@">>}],
     first_name : {<<>>, <<"a">>, <<"A", " ", "b">>, <<"a", "1">>},
     last_name : {<<>>, <<"B">>, <<"1">>},
     customer_id : 1..MaxCustomerId]

resolve_email_call ==
    /\ fn_args.fn = "email"
    /\ fn_result = Pending
    /\ fn_result' = Returned(ResolveEmail(fn_args.contact, fn_args.first_name,
                                          fn_args.last_name, fn_args.customer_id))
    /\ UNCHANGED <<fn_args, custVars, contVars, logVars, tickVars, ctrVars, atera, faults,
                   pageVars, mainVars>>

\* sanitize_phone_number on its own: null, or signs, a digit, a blank and a bracket
PhoneCalls ==
    [fn : {"phone"},
     phone_number : Strings({"+", "-", "7", " ", "("}, MaxPhoneLen) \cup {NoneStr}]

sanitize_phone_number_call ==
    /\ fn_args.fn = "phone"
    /\ fn_result = Pending
    /\ fn_result' = Returned(sanitize_phone_number(fn_args.phone_number))
    /\ UNCHANGED <<fn_args, custVars, contVars, logVars, tickVars, ctrVars, atera, faults,
                   pageVars, mainVars>>

\* datetime.utcnow() of line 735, in hours; a timestamp is written as the hour
\* of its date and time followed by nothing, by 'Z', or by '+' or '-' and the
\* hours of a timezone offset
UtcNow == 0
Timestamp(hour, sign, offset) == [hour |-> hour, sign |-> sign, offset |-> offset]
\* a record without a timestamp
NoTimestamp == Timestamp(0, None, 0)
\* a naive datetime, and one that knows its offset to UTC
Naive(hour) == [hour |-> hour, aware |-> FALSE, offset |-> 0]
Aware(hour, offset) == [hour |-> hour, aware |-> TRUE, offset |-> offset]

\* datetime.fromisoformat: an offset in the string makes the datetime aware
fromisoformat(date_string) ==
    IF date_string.sign = "+" THEN Aware(date_string.hour, date_string.offset)
    ELSE IF date_string.sign = "-" THEN Aware(date_string.hour, 0 - date_string.offset)
    ELSE Naive(date_string.hour)

\* lines 744-748: what follows a '+' is cut off, else a 'Z' is removed, and
\* the rest is parsed
ParseUdate(udate_str) ==
    IF udate_str.sign = "+" THEN fromisoformat(Timestamp(udate_str.hour, "", 0))
    ELSE IF udate_str.sign = "Z" THEN fromisoformat(Timestamp(udate_str.hour, "", 0))
    ELSE fromisoformat(udate_str)

\* lines 735-753 for one contract: a contract without UDATE is left out, and
\* so is one whose comparison with the naive cutoff raises TypeError (an aware
\* datetime), which line 752 catches
InsideWindow(c) ==
    LET cutoff == UtcNow - 24 * PULL_PERIOD_DAYS
    IN IF c.UDATE = NoTimestamp THEN FALSE
       ELSE LET contract_udate == ParseUdate(c.UDATE)
            IN IF contract_udate.aware THEN FALSE
               ELSE contract_udate.hour >= cutoff

\* get_priority_contracts (lines 722-754)
get_priority_contracts(all_contracts) == SelectSeq(all_contracts, InsideWindow)

\* timestamps on both sides of the cutoff in every form, and none at all
Udates ==
    {Timestamp(hour, sign, 0) : hour \in {-50, -49, -47, -46}, sign \in {"", "Z"}}
    \cup {Timestamp(hour, sign, offset) :
             hour \in {-50, -49, -47, -46}, sign \in {"+", "-"}, offset \in {2, 3}}
    \cup {NoTimestamp}
ContractCalls ==
    [fn : {"contracts"},
     all_contracts : UNION {[1..n -> [UDATE : Udates]] : n \in 0..MaxAllContracts}]

get_priority_contracts_call ==
    /\ fn_args.fn = "contracts"
    /\ fn_result = Pending
    /\ fn_result' = Returned(get_priority_contracts(fn_args.all_contracts))
    /\ UNCHANGED <<fn_args, custVars, contVars, logVars, tickVars, ctrVars, atera, faults,
                   pageVars, mainVars>>

InitFunctions ==
    /\ CustomersIdle(<<>>)
    /\ atera = <<>>
    /\ ContactsIdle(<<>>, <<>>)
    /\ LogIdle
    /\ TicketsIdle
    /\ ContractsIdle(<<>>, <<>>)
    /\ fn_args \in NameCalls \cup EmailCalls \cup PhoneCalls \cup ContractCalls
    /\ fn_result = Pending
    /\ PagesIdle
    /\ MainIdle
    /\ faults = 0
NextFunctions ==
    \/ resolve_names_call
    \/ resolve_email_call
    \/ sanitize_phone_number_call
    \/ get_priority_contracts_call
SpecFunctions == InitFunctions /\ [][NextFunctions]_vars

(* --------------------------- pagination loops -------------------------- *)

\* DAYS_BACK_TICKETS, the default of line 64
DAYS_BACK_TICKETS == 2

\* a page of a listing: its items and what it declares about further pages
Page(items, nextLink, totalPages) ==
    [items |-> items, nextLink |-> nextLink, totalPages |-> totalPages]
\* the answer to a request for a page: past its last page the remote repeats it
RemotePage(remote, page) == IF page <= Len(remote) THEN remote[page] ELSE remote[Len(remote)]

\* lines 523-532: what follows a '+' is cut off, else a 'Z' is removed, and
\* the rest is parsed
ParseCreatedDate(created_date_str) ==
    IF created_date_str.sign = "+" THEN fromisoformat(Timestamp(created_date_str.hour, "", 0))
    ELSE IF created_date_str.sign = "Z"
    THEN fromisoformat(Timestamp(created_date_str.hour, "", 0))
    ELSE fromisoformat(created_date_str)

\* lines 521-535 for the items of one page: a ticket without TicketCreatedDate
\* is left out, and the comparison of an aware datetime with the naive cutoff
\* raises TypeError, which nothing catches
RECURSIVE FilterTickets(_, _)
FilterTickets(fetched_items, days_back) ==
    IF fetched_items = <<>> THEN [raised |-> FALSE, tickets |-> <<>>]
    ELSE LET ticket == Head(fetched_items)
             cutoff_date == UtcNow - 24 * days_back
             created_date == ParseCreatedDate(ticket.TicketCreatedDate)
             rest == FilterTickets(Tail(fetched_items), days_back)
         IN IF ticket.TicketCreatedDate = NoTimestamp THEN rest
            ELSE IF created_date.aware THEN [raised |-> TRUE, tickets |-> <<>>]
            ELSE IF rest.raised THEN rest
            ELSE IF created_date.hour >= cutoff_date
            THEN [rest EXCEPT !.tickets = <<ticket>> \o @]
            ELSE rest

\* one turn of the loop of get_atera_customers (lines 101-113)
get_atera_customers_page ==
    /\ pg_fn = "customers"
    /\ pg_pc = "loop"
    /\ pg_page <= MaxPageNumber
    /\ \E st \in Answers(1) :
         LET data == RemotePage(pg_remote, pg_page)
             items == data.items
         IN IF st # OK
            THEN /\ faults' = faults + 1
                 /\ pg_pc' = "HTTPError"
                 /\ UNCHANGED <<pg_page, pg_result>>
            ELSE /\ faults' = faults
                 /\ pg_result' = pg_result \o items
                 /\ IF data.totalPages = pg_page \/ items = <<>>
                    THEN pg_pc' = "returned" /\ pg_page' = pg_page
                    ELSE pg_pc' = "loop" /\ pg_page' = pg_page + 1
    /\ UNCHANGED <<pg_fn, pg_remote, custVars, contVars, logVars, fnVars, tickVars, ctrVars,
                   mainVars, atera>>

\* one turn of the loop of get_atera_contacts (lines 296-311)
get_atera_contacts_page ==
    /\ pg_fn = "contacts"
    /\ pg_pc = "loop"
    /\ pg_page <= MaxPageNumber
    /\ \E st \in Answers(1) :
         LET data == RemotePage(pg_remote, pg_page)
         IN IF st # OK
            THEN /\ faults' = faults + 1
                 /\ pg_pc' = "HTTPError"
                 /\ UNCHANGED <<pg_page, pg_result>>
            ELSE /\ faults' = faults
                 /\ pg_result' = pg_result \o data.items
                 /\ IF ~data.nextLink
                    THEN pg_pc' = "returned" /\ pg_page' = pg_page
                    ELSE pg_pc' = "loop" /\ pg_page' = pg_page + 1
    /\ UNCHANGED <<pg_fn, pg_remote, custVars, contVars, logVars, fnVars, tickVars, ctrVars,
                   mainVars, atera>>

\* one turn of the loop of get_atera_tickets (lines 507-538), called with
\* DAYS_BACK_TICKETS
get_atera_tickets_page ==
    /\ pg_fn = "tickets"
    /\ pg_pc = "loop"
    /\ pg_page <= MaxPageNumber
    /\ \E st \in Answers(1) :
         LET data == RemotePage(pg_remote, pg_page)
             fetched_items == data.items
             kept == FilterTickets(fetched_items, DAYS_BACK_TICKETS)
         IN IF st # OK
            THEN /\ faults' = faults + 1
                 /\ pg_pc' = "HTTPError"
                 /\ UNCHANGED <<pg_page, pg_result>>
            ELSE /\ faults' = faults
                 /\ IF fetched_items = <<>>
                    THEN pg_pc' = "returned" /\ UNCHANGED <<pg_page, pg_result>>
                    ELSE IF kept.raised
                    THEN pg_pc' = "TypeError" /\ UNCHANGED <<pg_page, pg_result>>
                    ELSE /\ pg_result' = pg_result \o kept.tickets
                         /\ IF ~data.nextLink
                            THEN pg_pc' = "returned" /\ pg_page' = pg_page
                            ELSE pg_pc' = "loop" /\ pg_page' = pg_page + 1
    /\ UNCHANGED <<pg_fn, pg_remote, custVars, contVars, logVars, fnVars, tickVars, ctrVars,
                   mainVars, atera>>

\* one turn of the loop of get_atera_contracts_for_customer (lines 767-783)
get_atera_contracts_page ==
    /\ pg_fn = "contracts"
    /\ pg_pc = "loop"
    /\ pg_page <= MaxPageNumber
    /\ \E st \in Answers(1) :
         LET data == RemotePage(pg_remote, pg_page)
             page_contracts == data.items
         IN IF st # OK
            THEN /\ faults' = faults + 1
                 /\ pg_pc' = "HTTPError"
                 /\ UNCHANGED <<pg_page, pg_result>>
            ELSE /\ faults' = faults
                 /\ IF page_contracts = <<>>
                    THEN pg_pc' = "returned" /\ UNCHANGED <<pg_page, pg_result>>
                    ELSE /\ pg_result' = pg_result \o page_contracts
                         /\ IF ~data.nextLink
                            THEN pg_pc' = "returned" /\ pg_page' = pg_page
                            ELSE pg_pc' = "loop" /\ pg_page' = pg_page + 1
    /\ UNCHANGED <<pg_fn, pg_remote, custVars, contVars, logVars, fnVars, tickVars, ctrVars,
                   mainVars, atera>>

\* an item of a listing; only tickets carry a creation timestamp the loop reads
Item(created) == [TicketCreatedDate |-> created]
\* creation timestamps on either side of the cutoff: naive, with 'Z', with a
\* positive and with a negative offset, and none
CreatedDates ==
    {Timestamp(hour, sign, 0) : hour \in {-49, -47}, sign \in {"", "Z"}}
    \cup {Timestamp(hour, sign, 3) : hour \in {-49, -47}, sign \in {"+", "-"}}
    \cup {NoTimestamp}
ItemLists(dates) == UNION {[1..n -> {Item(created) : created \in dates}] : n \in 0..MaxPageItems}
\* the pages of a listing: get_atera_customers reads totalPages and the other
\* loops read nextLink, and either may be wrong
PagesOf(fn) ==
    IF fn = "customers"
    THEN {Page(items, FALSE, total) : items \in ItemLists({NoTimestamp}), total \in {1, MaxPageNumber}}
    ELSE IF fn = "tickets"
    THEN {Page(items, next, 1) : items \in ItemLists(CreatedDates), next \in BOOLEAN}
    ELSE {Page(items, next, 1) : items \in ItemLists({NoTimestamp}), next \in BOOLEAN}
\* remotes that end with a page without items
Remotes(fn) ==
    UNION {{remote \in [1..n -> PagesOf(fn)] : remote[n].items = <<>>} : n \in 1..MaxPages}

InitPages ==
    /\ pg_fn \in {"customers", "contacts", "tickets", "contracts"}
    /\ pg_remote \in Remotes(pg_fn)
    /\ pg_page = 1
    /\ pg_pc = "loop"
    /\ pg_result = <<>>
    /\ CustomersIdle(<<>>)
    /\ atera = <<>>
    /\ ContactsIdle(<<>>, <<>>)
    /\ LogIdle
    /\ FunctionsIdle
    /\ TicketsIdle
    /\ ContractsIdle(<<>>, <<>>)
    /\ MainIdle
    /\ faults = 0
NextPages ==
    \/ get_atera_customers_page
    \/ get_atera_contacts_page
    \/ get_atera_tickets_page
    \/ get_atera_contracts_page
SpecPages == InitPages /\ [][NextPages]_vars

(* -------------------------------- main --------------------------------- *)

\* the syncs main calls (lines 967-998)
Syncs == {"customers", "contacts", "contracts", "tickets"}
\* where main goes after a sync
After(sync) ==
    CASE sync = "customers" -> "contacts"
      [] sync = "contacts" -> "contracts"
      [] sync = "contracts" -> "tickets"
      [] OTHER -> "done"
\* where a sync called by main is
SyncPc(sync) ==
    CASE sync = "customers" -> cust_pc
      [] sync = "contacts" -> cont_pc
      [] sync = "contracts" -> ctr_pc
      [] OTHER -> tick_pc

\* lines 967-969: sync_customers() is called and runs
main_sync_customers_fetch ==
    /\ main_pc = "customers" /\ "customers" \in enabled /\ cust_pc = "idle"
    /\ sync_customers_fetch
main_sync_customers_step ==
    /\ main_pc = "customers"
    /\ sync_customers_step
\* lines 973-975
main_sync_contacts_fetch ==
    /\ main_pc = "contacts" /\ "contacts" \in enabled /\ cont_pc = "idle"
    /\ sync_contacts_fetch
main_sync_contacts_step ==
    /\ main_pc = "contacts"
    /\ sync_contacts_step
\* lines 979-981
main_sync_contracts_fetch ==
    /\ main_pc = "contracts" /\ "contracts" \in enabled /\ ctr_pc = "idle"
    /\ sync_contracts_fetch
main_sync_contracts_step ==
    /\ main_pc = "contracts"
    /\ sync_contracts_step
\* lines 997-998
main_sync_tickets_fetch ==
    /\ main_pc = "tickets" /\ "tickets" \in enabled /\ tick_pc = "idle"
    /\ sync_tickets_fetch
main_sync_tickets_step ==
    /\ main_pc = "tickets"
    /\ sync_tickets_step

\* the else branch of a flag (lines 970-971, 976-977, 982-983, 999-1000)
main_disabled ==
    /\ main_pc \in Syncs
    /\ main_pc \notin enabled
    /\ main_pc' = After(main_pc)
    /\ UNCHANGED <<enabled, custVars, contVars, logVars, fnVars, tickVars, ctrVars, pageVars,
                   atera, faults>>
\* a sync returns and main goes on to the next flag
main_returned ==
    /\ main_pc \in Syncs
    /\ main_pc \in enabled
    /\ SyncPc(main_pc) = "done"
    /\ main_pc' = After(main_pc)
    /\ UNCHANGED <<enabled, custVars, contVars, logVars, fnVars, tickVars, ctrVars, pageVars,
                   atera, faults>>
\* a sync raises: main has no try/except, so the exception leaves main
main_raised ==
    /\ main_pc \in Syncs
    /\ main_pc \in enabled
    /\ SyncPc(main_pc) = "raised"
    /\ main_pc' = "raised"
    /\ UNCHANGED <<enabled, custVars, contVars, logVars, fnVars, tickVars, ctrVars, pageVars,
                   atera, faults>>

\* what the two systems hold when main starts: at most one customer, contact,
\* contract and ticket, all of the customer C1 that Atera holds as customer 1
MainCustomer ==
    [CUSTNAME |-> CustName(1), CUSTDES |-> <<"b">>, PHONE |-> <<"5">>,
     MARH_UDATE |-> ModifiedNow, STATDES |-> ActiveStatus]
MainContact == Contact(CustName(1), <<"A">>, <<"B", " ">>, <<>>, <<>>)
MainContract == SourceContract(<<MainCustomer>>, 1, "D1", OpenStatus, "S")
MainTicket == Ticket(1, 1, <<"2">>, "P")

InitMain ==
    /\ main_pc = "customers"
    /\ enabled \in SUBSET Syncs
    /\ \E customers \in {<<>>, <<MainCustomer>>} : CustomersIdle(customers)
    /\ atera = ContactCustomers
    /\ \E contacts \in {<<>>, <<MainContact>>} : ContactsIdle(contacts, <<>>)
    /\ \E contracts \in {<<>>, <<MainContract>>} : ContractsIdle(contracts, <<>>)
    /\ tickets \in {<<>>, <<MainTicket>>}
    /\ tick_pc = "idle"
    /\ tick_i = 1
    /\ priority_customer_cache = EmptyMap
    /\ tick_calls = <<>>
    /\ LogIdle
    /\ FunctionsIdle
    /\ PagesIdle
    /\ faults = 0
NextMain ==
    \/ main_sync_customers_fetch
    \/ main_sync_customers_step
    \/ main_sync_contacts_fetch
    \/ main_sync_contacts_step
    \/ main_sync_contracts_fetch
    \/ main_sync_contracts_step
    \/ main_sync_tickets_fetch
    \/ main_sync_tickets_step
    \/ main_disabled
    \/ main_returned
    \/ main_raised
SpecMain == InitMain /\ [][NextMain]_vars

(* ------------------------ claims: sync_customers ----------------------- *)

Norm(name) == Lower(Strip(name))
Processed == 1..(cust_i - 1)
CallsOf(k, op) == {j \in 1..Len(cust_calls) : cust_calls[j].src = k /\ cust_calls[j].op = op}
Fetched == 1..Len(atera_customers)

\* the fetched customers whose cross-reference value is the CUSTNAME of c
XrefMatches(c) ==
    {atera_customers[j].CustomerID : j \in
        {j \in Fetched : atera_customers[j].PriorityCustomerNumber = c.CUSTNAME}}
\* the fetched customers whose trimmed lower-cased name is that of c
NameMatches(c) ==
    {atera_customers[j].CustomerID : j \in
        {j \in Fetched : Norm(atera_customers[j].CustomerName) = Norm(c.CUSTDES)}}
NamedNameMatches(c) == IF Norm(c.CUSTDES) = <<>> THEN {} ELSE NameMatches(c)

OneUpdateOf(k, targets) ==
    /\ CallsOf(k, "create") = {}
    /\ Cardinality(CallsOf(k, "update")) = 1
    /\ \A j \in CallsOf(k, "update") : cust_calls[j].id \in targets
OneCreate(k) ==
    /\ CallsOf(k, "update") = {}
    /\ Cardinality(CallsOf(k, "create")) = 1

Upsert(k, byXref, byName) ==
    IF byXref # {} THEN OneUpdateOf(k, byXref)
    ELSE IF byName # {} THEN OneUpdateOf(k, byName)
    ELSE OneCreate(k)

\* C1 as claimed: every source customer the loop has processed was matched
\* against the fetched target list by cross-reference first, then by equal
\* trimmed lower-cased name, and created only when neither matched; it never
\* caused both an update and a create.
C1_UpsertByXrefThenName ==
    \A k \in Processed :
        Upsert(k, XrefMatches(priority_customers[k]), NameMatches(priority_customers[k]))

\* C1 as amended: the same, where a name matches only when it is non-empty
\* once trimmed (a source customer with an empty name is created even when a
\* target customer has an empty name too).
C1_UpsertByXrefThenNonEmptyName ==
    \A k \in Processed :
        Upsert(k, XrefMatches(priority_customers[k]), NamedNameMatches(priority_customers[k]))

\* C1 witness: a source customer was updated through its cross-reference while
\* the name map pointed at another target customer, which carried its name.
C1_Witness ==
    \E k \in Processed :
        /\ XrefMatches(priority_customers[k]) # {}
        /\ NamedNameMatches(priority_customers[k]) \ XrefMatches(priority_customers[k]) # {}
        /\ \E j \in CallsOf(k, "update") :
              /\ cust_calls[j].id \in XrefMatches(priority_customers[k])
              /\ cust_calls[j].id # Get(atera_customer_name_map, Norm(priority_customers[k].CUSTDES))

\* C2 as claimed: when a customer mutation is answered with an error status,
\* the run still processes every later source customer of the list.
C2_LaterCustomersProcessed ==
    (cust_pc = "raised" /\ cust_log # <<>>) =>
        \A k \in 1..Len(priority_customers) : \E j \in 1..Len(cust_log) : cust_log[j].src = k

LogOf(log, k) == {j \in 1..Len(log) : log[j].src = k}

PayloadsOf(calls, k) ==
    {calls[j].data : j \in {j \in 1..Len(calls) : calls[j].src = k /\ calls[j].op \in {"update", "create"}}}

\* C4 as claimed: a run that follows a complete run on unchanged source data,
\* every request of both answered with success, issues no customer create, and
\* its update of a source customer carries the payload the run before sent for
\* that customer.
C4_SecondRunIdempotent ==
    (faults = 0 /\ cust_prev.pc = "done") =>
        \A k \in Processed :
            /\ CallsOf(k, "create") = {}
            /\ \A j \in CallsOf(k, "update") : PayloadsOf(cust_prev.calls, k) = {cust_calls[j].data}

\* C5 as claimed: no create and no update is issued for a source customer
\* last modified before now - PULL_PERIOD_DAYS.
C5_OnlyCustomersInsideWindow ==
    \A j \in 1..Len(cust_calls) :
        priority_customers[cust_calls[j].src].MARH_UDATE <= PULL_PERIOD_DAYS

\* no two customers of a list hold the same non-empty cross-reference value
UniqueXrefs(customers) ==
    \A i, j \in 1..Len(customers) :
        (i # j /\ Truthy(customers[i].PriorityCustomerNumber)) =>
            customers[i].PriorityCustomerNumber # customers[j].PriorityCustomerNumber
DistinctSources ==
    \A i, j \in 1..Len(priority_customers) :
        i # j => priority_customers[i].CUSTNAME # priority_customers[j].CUSTNAME

\* C28: when the source external ids are pairwise distinct and the target
\* customers fetched at the start of a run hold pairwise distinct non-empty
\* cross-reference values, then after the run, every request answered with
\* success, no two target customers hold the same non-empty value
C28_XrefsStayUnique ==
    (/\ cust_pc = "done"
     /\ faults = 0
     /\ DistinctSources
     /\ UniqueXrefs(atera_customers))
    => UniqueXrefs(atera)

\* C28 witness: a complete run without error created a customer next to one
\* that held a value before, and both hold a value of their own
C28_Witness ==
    /\ cust_pc = "done"
    /\ faults = 0
    /\ Len(atera_customers) >= 1
    /\ Len(atera) > Len(atera_customers)
    /\ Truthy(atera_customers[1].PriorityCustomerNumber)
    /\ \A k \in 1..Len(atera) : Truthy(atera[k].PriorityCustomerNumber)
    /\ UniqueXrefs(atera)

\* C29 as claimed: after a run of sync_customers in which every request is
\* answered with success, the CUSTNAME of every source customer is the
\* cross-reference value of a target customer.
C29_EverySourceReferenced ==
    (cust_pc = "done" /\ faults = 0) =>
        \A k \in 1..Len(priority_customers) :
            \E j \in 1..Len(atera) :
                atera[j].PriorityCustomerNumber = priority_customers[k].CUSTNAME

(* ------------------------ claims: sync_contacts ------------------------ *)

ContactsProcessed == 1..(cont_i - 1)
ContactCallsOf(k, op) ==
    {j \in 1..Len(cont_calls) : cont_calls[j].src = k /\ cont_calls[j].op = op}

\* the target customer the cross-reference map resolves a source contact to
ResolvedCustomer(c) ==
    IF c.CUSTNAME \in DOMAIN atera_customer_map THEN atera_customer_map[c.CUSTNAME] ELSE NoId
\* a source contact fails validation: no CUSTNAME, a CUSTNAME the map does not
\* hold, or no name at all once trimmed
FailsValidation(c) ==
    \/ c.CUSTNAME \in {Absent, None, ""}
    \/ ResolvedCustomer(c) = NoId
    \/ Strip(c.FIRSTNAME) = <<>> /\ Strip(c.LASTNAME) = <<>> /\ Strip(c.NAME) = <<>>

\* lower-cased "first last" of a source contact, after name resolution, and of
\* a target contact
SourceFullName(c) == Lower(FullName(ResolveNames(c).first, ResolveNames(c).last))
TargetFullName(t) == Lower(FullName(Strip(t.Firstname), Strip(t.Lastname)))
\* the fetched target contacts of the same customer and the same full name
ContactMatches(c) ==
    {atera_contacts[j].EndUserID : j \in
        {j \in 1..Len(atera_contacts) :
            /\ atera_contacts[j].CustomerID = ResolvedCustomer(c)
            /\ TargetFullName(atera_contacts[j]) = SourceFullName(c)}}
\* the fetched target contacts of the same full name under another customer
Namesakes(c) ==
    {j \in 1..Len(atera_contacts) :
        /\ atera_contacts[j].CustomerID # ResolvedCustomer(c)
        /\ TargetFullName(atera_contacts[j]) = SourceFullName(c)}

\* C6: every processed source contact that passes validation caused, when the
\* fetched target list holds a contact of the same target customer and the
\* same lower-cased full name, exactly one update of such a contact and no
\* create; otherwise exactly one create under the resolved customer id and no
\* update. A namesake under another customer is never the one updated.
C6_ContactUpsertByCustomerAndName ==
    \A k \in ContactsProcessed :
        LET c == priority_contacts[k]
        IN ~FailsValidation(c) =>
              IF ContactMatches(c) # {}
              THEN /\ ContactCallsOf(k, "create") = {}
                   /\ Cardinality(ContactCallsOf(k, "update")) = 1
                   /\ \A j \in ContactCallsOf(k, "update") : cont_calls[j].id \in ContactMatches(c)
              ELSE /\ ContactCallsOf(k, "update") = {}
                   /\ Cardinality(ContactCallsOf(k, "create")) = 1
                   /\ \A j \in ContactCallsOf(k, "create") :
                         cont_calls[j].data.CustomerID = ResolvedCustomer(c)

\* C6 witness: in one run a source contact was created although a namesake
\* exists under another customer, and a source contact was updated
C6_Witness ==
    /\ \E k \in ContactsProcessed :
          /\ ~FailsValidation(priority_contacts[k])
          /\ Namesakes(priority_contacts[k]) # {}
          /\ ContactMatches(priority_contacts[k]) = {}
          /\ ContactCallsOf(k, "create") # {}
    /\ \E k \in ContactsProcessed : ContactCallsOf(k, "update") # {}

\* C7: the iteration that handles a source contact failing validation issues
\* no contact request, writes nothing to the side log and leaves Atera's
\* contacts as they were.
C7_InvalidContactLeavesNoTrace ==
    [][(cont_pc = "loop" /\ FailsValidation(priority_contacts[cont_i]))
          => /\ cont_calls' = cont_calls
             /\ csvfile' = csvfile
             /\ atera_contact_list' = atera_contact_list]_vars

\* C7 witness: a run handled a contact failing validation and went on to issue
\* a request for a later, valid one
C7_Witness ==
    \E k \in ContactsProcessed :
        /\ FailsValidation(priority_contacts[k])
        /\ \E j \in 1..Len(cont_calls) : cont_calls[j].src > k

\* C8: once the lists are fetched nothing ends the run early: the run is
\* abandoned only before the first contact, the loop stands at a contact still
\* to process while it runs, and a finished run has logged an outcome for
\* every source contact, whatever was raised for the ones before it.
C8_ContactErrorsAreCaught ==
    /\ cont_pc = "raised" => cont_i = 1 /\ cont_log = <<>> /\ cont_calls = <<>>
    /\ cont_pc = "loop" =>
          /\ cont_i \in 1..Len(priority_contacts)
          /\ \A k \in ContactsProcessed : \E j \in 1..Len(cont_log) : cont_log[j].src = k
    /\ cont_pc = "done" =>
          \A k \in 1..Len(priority_contacts) : \E j \in 1..Len(cont_log) : cont_log[j].src = k

\* C8 witness: a finished run in which a request failed with a server error
\* and a request was issued for a later contact
C8_Witness ==
    /\ cont_pc = "done"
    /\ \E i, j \in 1..Len(cont_calls) :
          /\ cont_calls[i].status = ServerError
          /\ cont_calls[j].src > cont_calls[i].src

\* the data rows of the side log
DataRows(file) == SelectSeq(file.rows, LAMBDA row : row # Header)
\* the requests of the iteration just performed
NewCalls == SubSeq(cont_calls', Len(cont_calls) + 1, Len(cont_calls'))

\* C9: an iteration whose creation is answered 409 issues that one request
\* only, appends the single row (target customer id, CUSTNAME, email) to the
\* side log, logs no error for the contact and leaves the loop running.
C9_ConflictIsLoggedOnce ==
    [][(cont_pc = "loop" /\ \E j \in 1..Len(NewCalls) : NewCalls[j].status = Conflict)
          => /\ Len(NewCalls) = 1
             /\ NewCalls[1].op = "create"
             /\ DataRows(csvfile') =
                   Append(DataRows(csvfile),
                          Row(NewCalls[1].data.CustomerID, priority_contacts[cont_i].CUSTNAME,
                              NewCalls[1].data.Email))
             /\ cont_log'[Len(cont_log')].message # "Error processing contact"
             /\ cont_pc' = IF cont_i = Len(priority_contacts) THEN "done" ELSE "loop"
             /\ cont_i' = cont_i + 1]_vars

\* C9 witness: a creation was answered 409, its row is in the side log, and
\* the contact after it was processed
C9_Witness ==
    \E j \in 1..Len(cont_calls) :
        /\ cont_calls[j].status = Conflict
        /\ cont_calls[j].src + 1 \in ContactsProcessed
        /\ Len(DataRows(csvfile)) >= 1

\* C26: the payload of every contact create and update carries as Firstname
\* the resolved first name, or the source NAME when the resolved first name is
\* empty, and as Lastname the resolved last name, or the source NAME when the
\* resolved last name is empty
C26_PayloadNames ==
    \A j \in 1..Len(cont_calls) :
        cont_calls[j].op \in {"create", "update"} =>
            LET contact == priority_contacts[cont_calls[j].src]
                names == ResolveNames(contact)
            IN /\ cont_calls[j].data.Firstname =
                     IF names.first # <<>> THEN names.first ELSE contact.NAME
               /\ cont_calls[j].data.Lastname =
                     IF names.last # <<>> THEN names.last ELSE contact.NAME

\* C26 witness: a contact with a last name and NAME but no first name was sent
\* with NAME as Firstname, and a contact with NAME alone with NAME as Lastname
C26_Witness ==
    /\ \E j \in 1..Len(cont_calls) :
          LET contact == priority_contacts[cont_calls[j].src]
          IN /\ cont_calls[j].op \in {"create", "update"}
             /\ contact.FIRSTNAME = <<>> /\ contact.LASTNAME = <<"b">>
             /\ cont_calls[j].data.Firstname = <<"A", " ", "b">>
             /\ cont_calls[j].data.Lastname = <<"b">>
    /\ \E j \in 1..Len(cont_calls) :
          LET contact == priority_contacts[cont_calls[j].src]
          IN /\ cont_calls[j].op = "create"
             /\ contact.FIRSTNAME = <<>> /\ contact.LASTNAME = <<>>
             /\ cont_calls[j].data.Firstname = <<"a", " ", "B">>
             /\ cont_calls[j].data.Lastname = contact.NAME

\* the contacts fetched by this run that carry the email and the customer a
\* source contact resolves to: Atera holding none before the first run, an
\* earlier run created them for that source contact
CreatedEarlierFor(c) ==
    {j \in 1..Len(atera_contacts) :
        /\ atera_contacts[j].CustomerID = ResolvedCustomer(c)
        /\ atera_contacts[j].Email =
              ResolveEmail(c, ResolveNames(c).first, ResolveNames(c).last, ResolvedCustomer(c))}

\* C27 as claimed: a source contact that passes validation and for which an
\* earlier run created a target contact is updated by a later run over the
\* same source data, never created a second time.
C27_SecondRunUpdates ==
    [][(/\ cont_pc = "loop"
        /\ cont_run >= 2
        /\ ~FailsValidation(priority_contacts[cont_i])
        /\ CreatedEarlierFor(priority_contacts[cont_i]) # {})
       => \A j \in (Len(cont_calls) + 1)..Len(cont_calls') : cont_calls'[j].op # "create"]_vars

(* -------------------- claims: log_failed_duplicate_email --------------- *)

\* C10: starting without a file, after any number of calls the side log holds
\* the header once, as its first row, followed by one row per call in call
\* order; before the first call there is no file.
C10_SideLogIsAppendOnly ==
    csvfile = IF logged = <<>> THEN NoFile
              ELSE [exists |-> TRUE, rows |-> <<Header>> \o logged]

\* C10 witness: the side log after three calls, two of them with the same row
C10_Witness ==
    /\ Len(logged) >= 3
    /\ \E i, j \in 1..Len(logged) : i # j /\ logged[i] = logged[j]
    /\ csvfile.exists

(* -------------------- claims: functions on their own ------------------- *)

\* a name field as the resolution sees it: null as empty, blanks trimmed
Trimmed(x) == IF x = NoneStr THEN <<>> ELSE Strip(x)

\* C11: on the trimmed first, last and combined name, the resolution returns
\* the pair unchanged when last is non-empty, (first, first) when only last is
\* empty, (combined, empty) when both are empty and combined is not, and
\* rejects the contact when all three are empty.
C11_NameResolution ==
    (fn_args.fn = "names" /\ fn_result # Pending) =>
        LET first == Trimmed(fn_args.contact.FIRSTNAME)
            last == Trimmed(fn_args.contact.LASTNAME)
            combined == Trimmed(fn_args.contact.NAME)
        IN /\ last # <<>> => fn_result = Returned(<<first, last>>)
           /\ (last = <<>> /\ first # <<>>) => fn_result = Returned(<<first, first>>)
           /\ (last = <<>> /\ first = <<>> /\ combined # <<>>) =>
                 fn_result = Returned(<<combined, <<>>>>)
           /\ (last = <<>> /\ first = <<>> /\ combined = <<>>) =>
                 fn_result.status = "rejected"

\* C11 witness: a blank first name, a null last name and a padded combined
\* name resolved to the trimmed combined name alone
C11_Witness ==
    /\ fn_args.fn = "names"
    /\ fn_args.contact.FIRSTNAME = <<" ">>
    /\ fn_args.contact.LASTNAME = NoneStr
    /\ fn_args.contact.NAME = <<" ", "c">>
    /\ fn_result = Returned(<<<<"c">>, <<>>>>)

Nth(S, k) == CHOOSE i \in S : Cardinality({j \in S : j <= i}) = k

\* C13: for an input with a digit sanitize_phone_number returns the input's
\* '+', '-' and digit characters in their order and nothing else; for a null
\* or empty input and for an input without a digit it returns None, never the
\* empty string.
C13_PhoneSanitized ==
    (fn_args.fn = "phone" /\ fn_result # Pending) =>
        LET input == fn_args.phone_number
            kept == {i \in 1..Len(input) : input[i] \in {"+", "-"} \cup Digits}
        IN IF input # NoneStr /\ \E i \in 1..Len(input) : input[i] \in Digits
           THEN fn_result.value = [k \in 1..Cardinality(kept) |-> input[Nth(kept, k)]]
           ELSE fn_result.value = NoneStr /\ fn_result.value # <<>>

\* C13 witness: "+ 7" was sanitized to "+7"
C13_Witness ==
    /\ fn_args.fn = "phone"
    /\ fn_args.phone_number = <<"+", " ", "7">>
    /\ fn_result = Returned(<<"+", "7">>)

(* ------------------------ claims: sync_contracts ----------------------- *)

CreatesOf(calls) == {j \in 1..Len(calls) : calls[j].op = "create"}
\* the source customers a source contract belongs to
OwnersOf(contract) ==
    {i \in 1..Len(priority_customers) : priority_customers[i].CUSTNAME = contract.CUSTNAME}

\* C14 as claimed: no creation is requested for a source contract that is
\* cancelled, nor for one whose owning source customer (the customer whose
\* CUSTNAME the contract carries) is not active.
C14_NoContractForCancelledOrInactive ==
    \A j \in CreatesOf(ctr_calls) :
        LET contract == priority_contracts[ctr_calls[j].src]
        IN /\ contract.STATDES # CancelledStatus
           /\ \A i \in OwnersOf(contract) : priority_customers[i].STATDES = ActiveStatus

\* the requests of the iteration just performed
NewContractCalls == SubSeq(ctr_calls', Len(ctr_calls) + 1, Len(ctr_calls'))
\* a source contract gets through the checks of the loop and has a target customer
PassesFilters(contract) ==
    /\ contract.CUSTNAME # None
    /\ contract.DOCNO # None
    /\ contract.CUSTDES \in DOMAIN priority_customers_map
    /\ priority_customers_map[contract.CUSTDES].STATDES = ActiveStatus
    /\ contract.STATDES # CancelledStatus
    /\ contract.CUSTNAME \in DOMAIN cust_map
\* Atera's contracts of a customer whose custom field holds a DOCNO
HoldersOfDocno(customer_id, doc_no) ==
    {j \in 1..Len(atera_contract_list) :
        /\ atera_contract_list[j].CustomerID = customer_id
        /\ atera_contract_list[j].PriorityContractNumber = doc_no}

\* C15: in the iteration of a source contract that passes the filters and has
\* a target customer, with every request answered: when a target contract of
\* that customer holds the DOCNO nothing is created; otherwise exactly one
\* creation is requested, for that customer, and the new contract gets the
\* DOCNO. No iteration changes or removes a contract Atera already holds.
C15_CreateOnlyWhenDocnoIsNew ==
    [][/\ Len(atera_contract_list') >= Len(atera_contract_list)
       /\ \A j \in 1..Len(atera_contract_list) : atera_contract_list'[j] = atera_contract_list[j]
       /\ \A j \in 1..Len(NewContractCalls) :
             NewContractCalls[j].op \in {"list", "read", "create", "write"}
       /\ (/\ ctr_pc = "loop"
           /\ PassesFilters(priority_contracts[ctr_i])
           /\ ServerErrors(NewContractCalls) = 0)
          => LET contract == priority_contracts[ctr_i]
                 customer_id == cust_map[contract.CUSTNAME]
                 creates == CreatesOf(NewContractCalls)
             IN IF HoldersOfDocno(customer_id, contract.DOCNO) # {}
                THEN creates = {} /\ atera_contract_list' = atera_contract_list
                ELSE /\ Cardinality(creates) = 1
                     /\ \A j \in creates : NewContractCalls[j].data.CustomerID = customer_id
                     /\ atera_contract_list' =
                           Append(atera_contract_list,
                                  [ContractID |-> Len(atera_contract_list) + 1,
                                   CustomerID |-> customer_id,
                                   PriorityContractNumber |-> contract.DOCNO])]_vars

\* C15 witness: one run created a contract for a source contract and then
\* found it in Atera for a later source contract of the same DOCNO
C15_Witness ==
    \E i, j \in 1..Len(ctr_calls) :
        /\ ctr_calls[i].op = "create" /\ ctr_calls[i].status = OK
        /\ ctr_calls[j].op = "read"
        /\ ctr_calls[j].src > ctr_calls[i].src
        /\ ctr_calls[j].data = priority_contracts[ctr_calls[j].src].DOCNO
        /\ ctr_calls[j].id > MaxTgtContracts

\* C16 as claimed: when a request made for one source contract is answered
\* with an error status, the run still processes every later source contract.
C16_LaterContractsProcessed ==
    (ctr_pc = "raised" /\ ctr_calls # <<>>) => ctr_i > Len(priority_contracts)

C30_OneContractPerDocno ==
    faults = 0 =>
        \A i, j \in 1..Len(atera_contract_list) :
            (/\ i # j
             /\ atera_contract_list[i].CustomerID = atera_contract_list[j].CustomerID)
            => atera_contract_list[i].PriorityContractNumber
                  # atera_contract_list[j].PriorityContractNumber

\* C30 witness: two source contracts of one customer and one DOCNO, a second
\* run complete, one contract in Atera for them, found by the second run
C30_Witness ==
    /\ faults = 0
    /\ ctr_run = 2
    /\ ctr_pc = "done"
    /\ Len(priority_contracts) = 2
    /\ priority_contracts[1] = priority_contracts[2]
    /\ Len(atera_contract_list) = 1
    /\ atera_contract_list[1].PriorityContractNumber = priority_contracts[1].DOCNO
    /\ CreatesOf(ctr_calls) = {}
    /\ \E j \in 1..Len(ctr_calls) :
          ctr_calls[j].op = "read" /\ ctr_calls[j].data = priority_contracts[2].DOCNO

(* --------------------- claims: get_priority_contracts ------------------ *)

\* the instant, in hours of UTC, a timestamp stands for: a naive one and one
\* with 'Z' are in UTC, an offset is subtracted
Instant(t) ==
    IF t.sign = "+" THEN t.hour - t.offset
    ELSE IF t.sign = "-" THEN t.hour + t.offset
    ELSE t.hour

\* C17 as claimed: get_priority_contracts returns exactly the contracts whose
\* last-modified instant is at or after now minus PULL_PERIOD_DAYS, in the
\* order received, however the timestamp is written.
C17_ContractsInsideWindow ==
    (fn_args.fn = "contracts" /\ fn_result # Pending) =>
        LET Recent(c) == c.UDATE # NoTimestamp /\ Instant(c.UDATE) >= UtcNow - 24 * PULL_PERIOD_DAYS
        IN fn_result.value = SelectSeq(fn_args.all_contracts, Recent)

(* ------------------------- claims: sync_tickets ------------------------ *)

\* the requests of a run with a given operation and customer or ticket id
TicketCallsOf(calls, op, id) == {j \in 1..Len(calls) : calls[j].op = op /\ calls[j].id = id}
\* the customer ids of the tickets of the run
TicketCustomerIds == {tickets[k].CustomerID : k \in 1..Len(tickets)}

AteraCustomersWith(id) == {j \in 1..Len(atera) : atera[j].CustomerID = id}
NotPushable(ticket) ==
    \/ ticket.CustomerID = NoId
    \/ AteraCustomersWith(ticket.CustomerID) = {}
    \/ \A j \in AteraCustomersWith(ticket.CustomerID) :
          atera[j].PriorityCustomerNumber \in {None, ""}
\* the requests the step being taken adds to those of the run
NewTicketCalls == SubSeq(tick_calls', Len(tick_calls) + 1, Len(tick_calls'))
Answered(calls) == \A j \in 1..Len(calls) : calls[j].status # ServerError

ExternalIdOf(ticket) ==
    atera[CHOOSE j \in AteraCustomersWith(ticket.CustomerID) : TRUE].PriorityCustomerNumber
\* the hours of a ticket as a number (of tenths), 0 without a number
HoursOf(ticket) ==
    IF ticket.hours \in {NoneStr, <<>>} \/ ~FloatParses(ticket.hours) THEN 0
    ELSE Float(ticket.hours)

\* C20: the iteration of a ticket whose customer has a non-empty Priority
\* number makes, once its requests are answered, exactly one push, which
\* carries that number, the ticket id as a string, the ticket status, the
\* payment type and the billable hours as a number, 0 when they are missing,
\* empty or no number; no other push is made for the ticket
C20_OnePushPerResolvedTicket ==
    [][(tick_pc = "loop" /\ ~NotPushable(tickets[tick_i]) /\ Answered(NewTicketCalls))
        => LET ticket == tickets[tick_i]
               pushes == {j \in 1..Len(NewTicketCalls) : NewTicketCalls[j].op = "push"}
           IN /\ Cardinality(pushes) = 1
              /\ TicketCallsOf(tick_calls, "push", ticket.TicketID) = {}
              /\ \A j \in pushes :
                    /\ NewTicketCalls[j].id = ticket.TicketID
                    /\ NewTicketCalls[j].data =
                          [CUSTNAME |-> ExternalIdOf(ticket),
                           ATERADOCNO |-> Decimal(ticket.TicketID),
                           TQUANT |-> HoursOf(ticket),
                           ATERASTATUS |-> ticket.TicketStatus,
                           ATERATICKETTYPE |-> ticket.payment]]_vars

\* a ticket with hours that are no number was pushed with quantity 0 and a
\* ticket with 2.5 hours with that number
C20_Witness ==
    /\ tick_pc = "done"
    /\ Len(tickets) = 2
    /\ tickets[1].hours = <<"x">>
    /\ tickets[2].hours = <<" ", "2", ".", "5">>
    /\ \E j \in TicketCallsOf(tick_calls, "push", 1) : tick_calls[j].data.TQUANT = 0
    /\ \E j \in TicketCallsOf(tick_calls, "push", 2) : tick_calls[j].data.TQUANT = 25
    /\ Cardinality({j \in 1..Len(tick_calls) : tick_calls[j].op = "push"}) = 2

\* C21 as claimed: when a request made for one ticket is answered with an
\* error status, the run still processes every later ticket.
C21_LaterTicketsProcessed ==
    (tick_pc = "raised" /\ tick_calls # <<>>) => tick_i > Len(tickets)

(* ------------------------- claims: get_atera_tickets ------------------- *)

\* the tickets of the pages 1..n whose creation instant is inside the window
RECURSIVE CreatedInsideWindow(_)
CreatedInsideWindow(n) ==
    IF n = 0 THEN <<>>
    ELSE LET Recent(ticket) ==
                 /\ ticket.TicketCreatedDate # NoTimestamp
                 /\ Instant(ticket.TicketCreatedDate) >= UtcNow - 24 * DAYS_BACK_TICKETS
         IN CreatedInsideWindow(n - 1) \o SelectSeq(RemotePage(pg_remote, n).items, Recent)

\* C22 as claimed: no form of creation timestamp makes get_atera_tickets
\* raise, and what it returns are exactly the tickets of the pages it fetched
\* whose creation instant is at or after now minus days_back, a ticket
\* without creation timestamp being left out.
C22_TicketsInsideWindow ==
    pg_fn = "tickets" =>
        /\ pg_pc # "TypeError"
        /\ pg_pc = "returned" => pg_result = CreatedInsideWindow(pg_page)

(* ------------------------- claims: pagination -------------------------- *)

\* C24 as claimed: a pagination loop that is answered a page without items
\* stops there, whatever the page declares about further pages.
C24_EmptyPageStopsLoop ==
    [][(pg_pc = "loop" /\ pg_pc' # "HTTPError" /\ RemotePage(pg_remote, pg_page).items = <<>>)
        => pg_pc' = "returned"]_vars

(* ------------------------------ claims: main --------------------------- *)

\* C23 as claimed: when a sync raises, main still runs every enabled sync,
\* the later ones included.
C23_LaterSyncsRun ==
    main_pc = "raised" => \A sync \in enabled : SyncPc(sync) # "idle"

====
